---- MODULE Spec2Model ----
(***************************************************************************)
(* kube-federated-auth: the cluster-trust verification engine.             *)
(*                                                                         *)
(* The model is a set of request goroutines (Workers) of the HTTP server   *)
(* that run the TokenReview handler and the registration handler against   *)
(* the shared Credential Store and VerifierManager.  Each goroutine step   *)
(* is one action; the VerifierManager's RWMutex is explicit because it is  *)
(* held across a network call.  The Credential Store's critical sections   *)
(* contain no blocking call, so each of them is one atomic step.           *)
(***************************************************************************)
EXTENDS Integers, Sequences, FiniteSets, TLC

\* ------------------------------------------------------------------ bounds
NumWorkers == 2        \* request goroutines; each serves one request

Workers == 1..NumWorkers

None == "none"

\* --------------------------------------------------------- configuration
\* The universe of cluster names a configuration may hold.  "local" is the
\* cluster the service runs in (no api_server); "b" and "c" are remote.
ClusterNames == {"local", "b", "c"}

K8sIssuer == "https://kubernetes.default.svc.cluster.local"
AgentSA == "system:serviceaccount:kube-federated-auth:agent"
AppSA == "system:serviceaccount:default:app"

\* ClusterConfig fields (config.go:10-15), as in the documented set-up: every
\* cluster uses the default in-cluster issuer, remote clusters name an api_server,
\* "b" is bootstrapped from files, "c" only through registration.
Issuer(c) == K8sIssuer
APIServer(c) == IF c = "local" THEN "" ELSE "https://" \o c \o ".example.com:6443"
CACertPath(c) == IF c = "b" THEN "/etc/kube-fed/clusters/b/ca.crt" ELSE ""
TokenPath(c) == IF c = "b" THEN "/etc/kube-fed/clusters/b/token" ELSE ""

\* The agent allow-list (Config.Agents): the local cluster has no entry.
Agents == [c \in {"b", "c"} |-> AgentSA]

\* ClusterConfig.DiscoveryURL
DiscoveryURL(c) == IF APIServer(c) # "" THEN APIServer(c) ELSE Issuer(c)

IsAgentAuthorizedAlways(cluster, serviceAccount) == TRUE

\* Config.IsAgentAuthorized
IsAgentAuthorized(cluster, serviceAccount) ==
    IF cluster \notin DOMAIN Agents THEN FALSE
    ELSE Agents[cluster] = serviceAccount

\* ------------------------------------------------------------ environment
\* Content of the bootstrap files named by the configuration.
FileToken(c) == "boot-" \o c
FileCA(c) == "ca-file-" \o c

\* PEM blocks "ca1", "ca2", ...: x509.CertPool.AppendCertsFromPEM accepts all
\* but "junk".
PEMOk(ca) == ca # "junk"

\* base64 text: <<"b64", raw>> is the standard encoding of raw; anything else
\* is not base64.
B64Encode(raw) == <<"b64", raw>>
NotBase64 == <<"raw", "%%%">>
\* credentials.ParseBase64CACert
ParseBase64CACert(encoded) ==
    IF encoded[1] = "b64" THEN [ok |-> TRUE, val |-> encoded[2]]
    ELSE [ok |-> FALSE, val |-> ""]

\* The signing key each cluster's key set publishes (distinct per cluster).
SigningKey(c) == "key-" \o c
JWKS(c) == {SigningKey(c)}

\* Raw bearer tokens and what they decode to.  malformed tokens do not parse.
InvalidToken == "invalid.token.here"
Jwt(t) ==
    CASE t = "wl-local" -> [ok |-> TRUE, key |-> "key-local", iss |-> K8sIssuer, sub |-> AppSA, live |-> TRUE]
      [] t = "wl-b"     -> [ok |-> TRUE, key |-> "key-b", iss |-> K8sIssuer, sub |-> AppSA, live |-> TRUE]
      [] t = "ag-b"     -> [ok |-> TRUE, key |-> "key-b", iss |-> K8sIssuer, sub |-> AgentSA, live |-> TRUE]
      [] t = "ag-b2"    -> [ok |-> TRUE, key |-> "key-b", iss |-> K8sIssuer, sub |-> AgentSA, live |-> TRUE]
      [] t = "ag-c"     -> [ok |-> TRUE, key |-> "key-c", iss |-> K8sIssuer, sub |-> AgentSA, live |-> TRUE]
      [] t = "exp-b"    -> [ok |-> TRUE, key |-> "key-b", iss |-> K8sIssuer, sub |-> AppSA, live |-> FALSE]
      [] t = "unk"      -> [ok |-> TRUE, key |-> "key-x", iss |-> K8sIssuer, sub |-> AppSA, live |-> TRUE]
      [] t = "iss-b"    -> [ok |-> TRUE, key |-> "key-b", iss |-> APIServer("b"), sub |-> AppSA, live |-> TRUE]
      [] t = "aud-b"    -> [ok |-> TRUE, key |-> "key-b", iss |-> K8sIssuer, sub |-> AppSA, live |-> TRUE]
      [] OTHER          -> [ok |-> FALSE, key |-> "", iss |-> "", sub |-> "", live |-> FALSE]

\* The aud claim of a token: the API server's own audience unless the token was
\* requested for another one.
Audience(t) == IF t = "aud-b" THEN {"https://other-service.example.com"} ELSE {K8sIssuer}

\* Inputs the requests are drawn from.
ReviewTokens == {"", InvalidToken, "wl-local", "wl-b", "exp-b", "unk"}

\* ------------------------------------------------------------------ state
VARIABLES
    clusters,      \* config.Clusters: the configured cluster names
    inCluster,     \* rest.InClusterConfig() succeeds in this process
    credentials,   \* Store.credentials: cluster -> Credentials
    secret,        \* the durable Secret: [found, data]
    verifiers,     \* VerifierManager.verifiers: cluster -> verifier entry
    vmLock,        \* holder of VerifierManager.mu's write lock, 0 when free
    pc,            \* each goroutine's position
    req,           \* each goroutine's request
    lv,            \* each goroutine's local variables
    resp,          \* each goroutine's response, once written
    msg,           \* the outbound request each goroutine is blocked in
    ctx,           \* each request's context: "live" or "canceled"
    agent,         \* the registration agent process (cmd/agent)
    boot           \* the service's main before it serves (cmd/server)

vars == <<clusters, inCluster, credentials, secret, verifiers, vmLock,
          pc, req, lv, resp, msg, ctx, agent, boot>>

EmptyMap == [x \in {} |-> None]
Put(f, k, v) == [x \in DOMAIN f \cup {k} |-> IF x = k THEN v ELSE f[x]]
Drop(f, k) == [x \in DOMAIN f \ {k} |-> f[x]]

NoCreds == [Token |-> "", CACert |-> None]
NoEntry == [cluster |-> None, bearer |-> "", ca |-> None, jwks |-> [host |-> "", path |-> ""]]
NoClaims == [Cluster |-> None, Issuer |-> "", Subject |-> "", Audience |-> {}]
NoRequest == [kind |-> None]
NoResponse == [code |-> 0]
NoMessage == [kind |-> None, to |-> "", bearer |-> "", ca |-> None, body |-> ""]

NoLocals == [remaining |-> {}, cur |-> None, ver |-> NoEntry, err |-> None,
             detected |-> None, claims |-> NoClaims, creds |-> NoCreds,
             got |-> NoCreds, snapshot |-> EmptyMap, nfwd |-> 0, ferr |-> None]

\* What is left of a goroutine's locals once its response is written.
Final(l) == [NoLocals EXCEPT !.detected = l.detected, !.claims = l.claims,
                             !.creds = l.creds, !.got = l.got, !.nfwd = l.nfwd,
                             !.ferr = l.ferr]

SecretDataTokens(creds) ==
    [k \in {<<c, "token">> : c \in DOMAIN creds} |-> creds[k[1]].Token]

\* A Secret's Data: keys <<cluster, "token">> and <<cluster, "ca.crt">>.
SecretData(creds) ==
    [k \in {<<c, f>> : c \in DOMAIN creds, f \in {"token", "ca.crt"}} |->
        IF k[2] = "token" THEN creds[k[1]].Token ELSE creds[k[1]].CACert]

SecretNotFound == [found |-> FALSE, data |-> EmptyMap]

\* The Secret an earlier run of the service may have left.
InitialSecrets ==
    {SecretNotFound,
     [found |-> TRUE, data |-> SecretData([c \in {"b"} |-> [Token |-> "boot-b", CACert |-> "ca1"]])]}

\* Store.loadFromSecret: a cluster is loaded only when both of its keys exist.
loadFromSecret(s) ==
    IF ~s.found THEN EmptyMap
    ELSE LET names == {k[1] : k \in DOMAIN s.data}
             full == {c \in names : <<c, "token">> \in DOMAIN s.data
                                    /\ <<c, "ca.crt">> \in DOMAIN s.data}
         IN [c \in full |-> [Token |-> s.data[<<c, "token">>],
                             CACert |-> s.data[<<c, "ca.crt">>]]]

\* The configurations the service is started with.
Configs == {{"b"}, {"local", "b"}, {"b", "c"}}

\* The agent process before main runs.
AgentNotStarted == [pc |-> "off", cycle |-> 0, i |-> 0, delay |-> 0, lastErr |-> None]

\* A configuration file: whether it exists, whether it is YAML, and the
\* ClusterConfig (issuer, api_server) of each cluster it names.
NoFile == [exists |-> FALSE, parses |-> FALSE, clusters |-> EmptyMap]

\* The service's main once it serves: what config.Load and NewStore were given,
\* what they returned and logged, and the last answer of GET /clusters.
Serving == [pc |-> "serving", file |-> NoFile, readFails |-> FALSE, cfg |-> EmptyMap,
            err |-> None, storeErr |-> None, log |-> {}, listing |-> <<>>]

\* config.Load, credentials.NewStore, oidc.NewVerifierManager
Init ==
    /\ clusters \in Configs
    /\ inCluster \in BOOLEAN
    /\ secret \in (IF inCluster THEN InitialSecrets ELSE {SecretNotFound})
    /\ credentials = (IF inCluster THEN loadFromSecret(secret) ELSE EmptyMap)
    /\ verifiers = EmptyMap
    /\ vmLock = 0
    /\ pc = [w \in Workers |-> "idle"]
    /\ req = [w \in Workers |-> NoRequest]
    /\ lv = [w \in Workers |-> NoLocals]
    /\ resp = [w \in Workers |-> NoResponse]
    /\ msg = [w \in Workers |-> NoMessage]
    /\ ctx = [w \in Workers |-> "live"]
    /\ agent = AgentNotStarted
    /\ boot = Serving

\* The server accepts connections once main serves, one after the other:
\* goroutine w exists once the goroutines before it do.
CanStart(w) ==
    /\ boot.pc = "serving"
    /\ pc[w] = "idle" /\ \A v \in Workers : v < w => pc[v] # "idle"

\* r.Context() after a step of the handler: net/http cancels it when ServeHTTP
\* returns.
ContextAfter(w) == [ctx EXCEPT ![w] = IF pc'[w] = "done" THEN "canceled" ELSE @]

\* ------------------------------------------------------------- responses
DetectionFailedMsg == "token not valid for any configured cluster"

writeUnauthenticatedNoTypeMeta(errMsg) ==
    [code |-> 200, apiVersion |-> "", kind |-> "",
     authenticated |-> FALSE, error |-> errMsg, user |-> "", audiences |-> {}]

\* TokenReviewHandler.writeUnauthenticated
writeUnauthenticated(errMsg) ==
    [code |-> 200, apiVersion |-> "authentication.k8s.io/v1", kind |-> "TokenReview",
     authenticated |-> FALSE, error |-> errMsg, user |-> "", audiences |-> {}]

\* writeAuthenticated of the host-routed TokenReview handler
writeAuthenticated(claims) ==
    [code |-> 200, apiVersion |-> "authentication.k8s.io/v1", kind |-> "TokenReview",
     authenticated |-> TRUE, error |-> "", user |-> claims.Subject,
     audiences |-> claims.Audience]

writeErrorStatusOK(code, errMsg) ==
    [code |-> 200, apiVersion |-> "authentication.k8s.io/v1", kind |-> "TokenReview",
     authenticated |-> FALSE, error |-> errMsg, user |-> "", audiences |-> {}]

\* TokenReviewHandler.writeError
writeError(code, errMsg) ==
    [code |-> code, apiVersion |-> "authentication.k8s.io/v1", kind |-> "TokenReview",
     authenticated |-> FALSE, error |-> errMsg, user |-> "", audiences |-> {}]

\* json.NewEncoder(w).Encode of an authv1.TokenReview: the keys of the JSON
\* object and of its status.  apiVersion, kind, status.authenticated and
\* status.error are "omitempty" fields: a key is written only for a non-zero
\* value, so authenticated=false is sent as an absent key.
EnvelopeKeys(r) ==
    {"metadata", "spec", "status"}
        \cup (IF r.apiVersion # "" THEN {"apiVersion"} ELSE {})
        \cup (IF r.kind # "" THEN {"kind"} ELSE {})
StatusKeys(r) ==
    {"user"} \cup (IF r.authenticated THEN {"authenticated"} ELSE {})
             \cup (IF r.error # "" THEN {"error"} ELSE {})

\* ErrorResponse / RegisterResponse of the registration endpoint
RegisterError(code, err) == [code |-> code, error |-> err, status |-> ""]
RegisterAccepted == [code |-> 200, error |-> "", status |-> "accepted"]

\* Store.Get
Get(cluster) ==
    IF cluster \in DOMAIN credentials
    THEN [ok |-> TRUE, creds |-> credentials[cluster]]
    ELSE [ok |-> FALSE, creds |-> NoCreds]

\* ------------------------------------------------------- outbound network
\* A URL is [host, path].  Hosts: each remote cluster's api_server, and the
\* in-cluster name of the issuer, which resolves to the local API server.
URL(host, path) == [host |-> host, path |-> path]
JWKSPath == "/openid/v1/jwks"

\* Cluster "c" publishes its keys at a URL of its own (kube-apiserver's
\* --service-account-jwks-uri), which its discovery document may advertise.
CustomJWKSHost == "https://keys.c.example.com"
CustomJWKSPath == "/jwks.json"

\* The key set an endpoint serves: a cluster's API server serves that cluster's
\* keys, the custom key host those of "c"; the issuer host is the local
\* cluster's API server.
KeysServedAt(host) ==
    IF \E c \in ClusterNames : APIServer(c) # "" /\ APIServer(c) = host
    THEN JWKS(CHOOSE c \in ClusterNames : APIServer(c) = host)
    ELSE IF host = CustomJWKSHost THEN JWKS("c")
    ELSE JWKS("local")

\* The discovery documents a Kubernetes API server answers with: jwks_uri is
\* on the issuer's host, or the URL the cluster was configured to advertise.
DiscoveryDocs(c) ==
    {[issuer |-> Issuer(c), jwks_uri |-> URL(Issuer(c), JWKSPath)]} \cup
    (IF c = "c" THEN {[issuer |-> Issuer(c), jwks_uri |-> URL(CustomJWKSHost, CustomJWKSPath)]}
     ELSE {})

\* rewriteJWKSURL: a URL that contains the standard key-set path is replaced by
\* that path on the API server; any other URL is used as it is.
rewriteJWKSURL(jwksURL, apiServer) ==
    IF jwksURL.path = JWKSPath THEN URL(apiServer, JWKSPath) ELSE jwksURL

Message(kind, to, bearer, ca, body) ==
    [kind |-> kind, to |-> to, bearer |-> bearer, ca |-> ca, body |-> body]

\* VerifierManager.createHTTPClient: dynamic credentials first, then the files
\* of the configuration.
createHTTPClient(clusterName) ==
    LET g == Get(clusterName)
        caDyn == IF g.ok THEN g.creds.CACert ELSE None
        token == IF g.ok THEN g.creds.Token ELSE ""
        caCert == IF caDyn = None /\ CACertPath(clusterName) # ""
                  THEN FileCA(clusterName) ELSE caDyn
        bearer == IF token # "" THEN token
                  ELSE IF TokenPath(clusterName) # "" THEN FileToken(clusterName)
                  ELSE ""
    IN IF caCert # None /\ ~PEMOk(caCert)
       THEN [ok |-> FALSE, bearer |-> "", ca |-> None, err |-> "failed to parse CA cert"]
       ELSE [ok |-> TRUE, bearer |-> bearer, ca |-> caCert, err |-> None]

\* The key-set fetch verifier.Verify(ctx, rawToken) makes through the entry's
\* HTTP client: a GET whose Authorization header is set by the client's
\* staticTokenRoundTripper / tokenRoundTripper.
jwksRequestLeaky(entry, rawToken) ==
    Message("jwks", entry.jwks.host, rawToken, entry.ca, "")
jwksRequest(entry, rawToken) ==
    Message("jwks", entry.jwks.host, entry.bearer, entry.ca, "")

\* VerifierManager.fetchDiscovery's GET of /.well-known/openid-configuration
discoveryRequest(clusterName, client) ==
    Message("discovery", DiscoveryURL(clusterName), client.bearer, client.ca, "")

\* ------------------------------------------------- TokenReview: ServeHTTP
ReviewBodies == {[decodes |-> FALSE, token |-> ""]} \cup
                {[decodes |-> TRUE, token |-> t] : t \in ReviewTokens}

\* The error text ServeHTTP writes when detectCluster fails.
DetectionErrorLeaky(err) == err
DetectionError(err) == DetectionFailedMsg

detectClusterStopsOnError(w, l) ==
    IF l.remaining = {} \/ l.err # None
    THEN /\ resp' = [resp EXCEPT ![w] = writeUnauthenticated(DetectionError(l.err))]
         /\ pc' = [pc EXCEPT ![w] = "done"]
         /\ lv' = [lv EXCEPT ![w] = Final(l)]
    ELSE /\ \E c \in l.remaining :
             lv' = [lv EXCEPT ![w] = [l EXCEPT !.cur = c, !.remaining = @ \ {c},
                                                !.ver = NoEntry]]
         /\ pc' = [pc EXCEPT ![w] = "v_rlock"]
         /\ resp' = resp

\* TokenReviewHandler.detectCluster: the next iteration of the range over
\* config.Clusters (Go iterates a map in no fixed order) calls Verify; at the
\* end of the range detection has failed and ServeHTTP writes its rejection.
detectCluster(w, l) ==
    IF l.remaining = {}
    THEN /\ resp' = [resp EXCEPT ![w] = writeUnauthenticated(DetectionError(l.err))]
         /\ pc' = [pc EXCEPT ![w] = "done"]
         /\ lv' = [lv EXCEPT ![w] = Final(l)]
    ELSE /\ \E c \in l.remaining :
             lv' = [lv EXCEPT ![w] = [l EXCEPT !.cur = c, !.remaining = @ \ {c},
                                                !.ver = NoEntry]]
         /\ pc' = [pc EXCEPT ![w] = "v_rlock"]
         /\ resp' = resp

\* TokenReviewHandler.ServeHTTP, up to the first Verify of detectCluster
StartReview(w) ==
    /\ CanStart(w)
    /\ \E body \in ReviewBodies :
        /\ req' = [req EXCEPT ![w] = [kind |-> "review", decodes |-> body.decodes,
                                      token |-> body.token]]
        /\ IF ~body.decodes
           THEN /\ resp' = [resp EXCEPT ![w] = writeError(400, "invalid request body")]
                /\ pc' = [pc EXCEPT ![w] = "done"]
                /\ lv' = lv
           ELSE IF body.token = ""
           THEN /\ resp' = [resp EXCEPT ![w] = writeError(400, "token is required")]
                /\ pc' = [pc EXCEPT ![w] = "done"]
                /\ lv' = lv
           ELSE detectCluster(w, [NoLocals EXCEPT !.remaining = clusters])
    /\ UNCHANGED <<boot, agent, clusters, inCluster, credentials, secret, verifiers, vmLock, msg>>
    /\ ctx' = ContextAfter(w)

\* ------------------------------------------------ VerifierManager.Verify
\* The claims Verify returns for a verified token.
ClaimsOf(clusterName, rawToken) ==
    [Cluster |-> clusterName, Issuer |-> Jwt(rawToken).iss, Subject |-> Jwt(rawToken).sub,
     Audience |-> Audience(rawToken)]

\* What the caller of Verify does with its result: detectCluster returns the
\* cluster on success and tries the next one on any error; the registration
\* handler answers invalid_token on an error; the host-routed TokenReview
\* handler answers with the claims or with the error's text.
VerifyReturns(w, l, err) ==
    IF req[w].kind = "hostreview"
    THEN /\ resp' = [resp EXCEPT ![w] = IF err = None THEN writeAuthenticated(l.claims)
                                        ELSE writeUnauthenticated(err)]
         /\ pc' = [pc EXCEPT ![w] = "done"]
         /\ lv' = [lv EXCEPT ![w] = Final(l)]
    ELSE IF req[w].kind = "review"
    THEN IF err = None
         THEN /\ lv' = [lv EXCEPT ![w] = [NoLocals EXCEPT !.detected = l.cur,
                                                           !.claims = l.claims]]
              /\ pc' = [pc EXCEPT ![w] = "forward"]
              /\ resp' = resp
         ELSE detectCluster(w, [l EXCEPT !.err = err])
    ELSE IF err = None
         THEN /\ lv' = [lv EXCEPT ![w] = [NoLocals EXCEPT !.claims = l.claims]]
              /\ pc' = [pc EXCEPT ![w] = "reg_store"]
              /\ resp' = resp
         ELSE /\ lv' = [lv EXCEPT ![w] = Final(l)]
              /\ pc' = [pc EXCEPT ![w] = "done"]
              /\ resp' = [resp EXCEPT ![w] = RegisterError(401, "invalid_token")]

\* Verify's lookup of the cluster in the configuration
ConfiguredAny(clusterName) == TRUE
Configured(clusterName) == clusterName \in clusters

\* Verify's configuration lookup, then getOrCreateVerifier's first look at the
\* cache under the read lock.
VerifyRLock(w) ==
    /\ pc[w] = "v_rlock"
    /\ LET c == lv[w].cur IN
       IF ~Configured(c)
       THEN VerifyReturns(w, lv[w], "cluster not found: " \o c)
       ELSE /\ vmLock = 0
            /\ resp' = resp
            /\ IF c \in DOMAIN verifiers
               THEN /\ lv' = [lv EXCEPT ![w].ver = verifiers[c]]
                    /\ pc' = [pc EXCEPT ![w] = "v_check"]
               ELSE /\ lv' = lv
                    /\ pc' = [pc EXCEPT ![w] = "v_wlock"]
    /\ UNCHANGED <<boot, agent, clusters, inCluster, credentials, secret, verifiers, vmLock, req, msg>>
    /\ ctx' = ContextAfter(w)

\* getOrCreateVerifier's second look at the cache, under the write lock
DoubleCheckSkipped(m, name) == FALSE
DoubleCheck(m, name) == name \in DOMAIN m

\* getOrCreateVerifier from m.mu.Lock() to the discovery request: the second
\* look at the cache, createHTTPClient, and the GET that fetchDiscovery sends.
\* The write lock stays held while the request is in flight.
VerifyBuild(w) ==
    /\ pc[w] = "v_wlock"
    /\ vmLock = 0
    /\ LET c == lv[w].cur
           client == createHTTPClient(c)
       IN IF DoubleCheck(verifiers, c)
          THEN /\ lv' = [lv EXCEPT ![w].ver = verifiers[c]]
               /\ pc' = [pc EXCEPT ![w] = "v_check"]
               /\ UNCHANGED <<vmLock, msg, resp>>
          ELSE IF ~client.ok
          THEN /\ VerifyReturns(w, lv[w], "creating verifier: " \o client.err)
               /\ UNCHANGED <<vmLock, msg>>
          ELSE /\ vmLock' = w
               /\ msg' = [msg EXCEPT ![w] = discoveryRequest(c, client)]
               /\ lv' = [lv EXCEPT ![w].ver =
                            [cluster |-> c, bearer |-> client.bearer,
                             ca |-> client.ca, jwks |-> URL("", "")]]
               /\ pc' = [pc EXCEPT ![w] = "v_discovery"]
               /\ resp' = resp
    /\ UNCHANGED <<boot, agent, clusters, inCluster, credentials, secret, verifiers, req>>
    /\ ctx' = ContextAfter(w)

\* The cache when getOrCreateVerifier returns fetchDiscovery's error: nothing
\* was assigned.
BuildFailedCached(m, name) == Put(m, name, NoEntry)
BuildFailed(m, name) == m

\* fetchDiscovery returns; on success the verifier is built and stored, and the
\* deferred m.mu.Unlock() runs either way.
DiscoveryReturns(w) ==
    /\ pc[w] = "v_discovery"
    /\ vmLock' = 0
    /\ msg' = [msg EXCEPT ![w] = NoMessage]
    /\ LET c == lv[w].cur IN
       \/ /\ VerifyReturns(w, lv[w], "creating verifier: fetching OIDC discovery from "
                                      \o DiscoveryURL(c))
          /\ verifiers' = BuildFailed(verifiers, c)
       \/ \E doc \in DiscoveryDocs(c) :
            ctx[w] = "live" /\
            LET jwksURL == IF APIServer(c) # ""
                           THEN rewriteJWKSURL(doc.jwks_uri, APIServer(c))
                           ELSE doc.jwks_uri
                entry == [lv[w].ver EXCEPT !.jwks = jwksURL]
            IN /\ verifiers' = Put(verifiers, c, entry)
               /\ lv' = [lv EXCEPT ![w].ver = entry]
               /\ pc' = [pc EXCEPT ![w] = "v_check"]
               /\ resp' = resp
    /\ UNCHANGED <<boot, agent, clusters, inCluster, credentials, secret, req>>
    /\ ctx' = ContextAfter(w)

\* The signature check of the entry's key set against the keys its JWKS
\* endpoint serves.
SignatureOKAnyKey(entry, rawToken) == TRUE
SignatureOK(entry, rawToken) == Jwt(rawToken).key \in KeysServedAt(entry.jwks.host)

\* The oidc.Config the verifier is built with: no client ID, and the audience
\* check switched off.
CheckClientID == FALSE
SkipClientIDCheck == TRUE

\* verifier.Verify(ctx, rawToken) of go-oidc: parse, issuer, audience (unless
\* skipped; without a client ID the library refuses every token), expiry, then
\* the signature.  The entry's RemoteKeySet tries the keys it has cached (which
\* ones it holds is the library's state, left open here) and fetches the key
\* set when none of them verifies the token.
VerifyToken(w) ==
    /\ pc[w] = "v_check"
    /\ LET c == lv[w].cur
           t == req[w].token
           j == Jwt(t)
           e == lv[w].ver
       IN IF ~j.ok
          THEN VerifyReturns(w, lv[w], "verifying token: oidc: malformed jwt") /\ msg' = msg
          ELSE IF j.iss # Issuer(c)
          THEN VerifyReturns(w, lv[w], "verifying token: oidc: id token issued by a different provider")
               /\ msg' = msg
          ELSE IF ~SkipClientIDCheck
          THEN VerifyReturns(w, lv[w], "verifying token: oidc: invalid configuration, clientID must be provided or SkipClientIDCheck must be set")
               /\ msg' = msg
          ELSE IF ~j.live
          THEN VerifyReturns(w, lv[w], "verifying token: oidc: token is expired") /\ msg' = msg
          ELSE \/ /\ SignatureOK(e, t)
                  /\ VerifyReturns(w, [lv[w] EXCEPT !.claims = ClaimsOf(c, t)], None)
                  /\ msg' = msg
               \/ /\ msg' = [msg EXCEPT ![w] = jwksRequest(e, t)]
                  /\ pc' = [pc EXCEPT ![w] = "v_jwks"]
                  /\ UNCHANGED <<lv, resp>>
    /\ UNCHANGED <<boot, agent, clusters, inCluster, credentials, secret, verifiers, vmLock, req>>
    /\ ctx' = ContextAfter(w)

\* The key-set fetch returns, with an error or with the keys its endpoint
\* serves.
JWKSReturns(w) ==
    /\ pc[w] = "v_jwks"
    /\ msg' = [msg EXCEPT ![w] = NoMessage]
    /\ LET c == lv[w].cur
           t == req[w].token
           e == lv[w].ver
       IN \/ VerifyReturns(w, lv[w], "verifying token: fetching keys oidc: get keys failed")
          \/ ctx[w] = "live" /\
             IF SignatureOK(e, t)
             THEN VerifyReturns(w, [lv[w] EXCEPT !.claims = ClaimsOf(c, t)], None)
             ELSE VerifyReturns(w, lv[w], "verifying token: failed to verify signature")
    /\ UNCHANGED <<boot, agent, clusters, inCluster, credentials, secret, verifiers, vmLock, req>>
    /\ ctx' = ContextAfter(w)

\* --------------------------------------------- TokenReview: forwarding
InClusterHost == "https://kubernetes.default.svc"
InClusterToken == "sa-token-of-this-pod"
InClusterCA == "ca-of-this-pod"

buildRESTConfigFileFallback(clusterName) ==
    IF APIServer(clusterName) # ""
    THEN LET client == createHTTPClient(clusterName)
         IN [Host |-> APIServer(clusterName), BearerToken |-> client.bearer,
             CAData |-> client.ca]
    ELSE [Host |-> Issuer(clusterName), BearerToken |-> "", CAData |-> None]

\* TokenReviewHandler.buildRESTConfig
buildRESTConfig(clusterName) ==
    IF APIServer(clusterName) # ""
    THEN LET g == Get(clusterName)
         IN [Host |-> APIServer(clusterName),
             BearerToken |-> IF g.ok THEN g.creds.Token ELSE "",
             CAData |-> IF g.ok THEN g.creds.CACert ELSE None]
    ELSE IF inCluster
    THEN [Host |-> InClusterHost, BearerToken |-> InClusterToken, CAData |-> InClusterCA]
    ELSE [Host |-> Issuer(clusterName), BearerToken |-> "", CAData |-> None]

\* The cluster whose REST config forwardTokenReview builds.
ForwardTargetOther(detected) == CHOOSE c \in ClusterNames : c # detected /\ c # "local"
ForwardTarget(detected) == detected

\* The error text ServeHTTP writes when forwardTokenReview fails.
ForwardErrorGeneric(err) == DetectionFailedMsg
ForwardError(err) == "failed to validate token: " \o err

\* ServeHTTP's answer to an error of forwardTokenReview
ForwardFails(w, err) ==
    /\ resp' = [resp EXCEPT ![w] = writeUnauthenticated(ForwardError(err))]
    /\ pc' = [pc EXCEPT ![w] = "done"]
    /\ lv' = [lv EXCEPT ![w] = Final([@ EXCEPT !.ferr = err])]

\* forwardTokenReview up to the TokenReviews().Create call: the REST config,
\* the client (kubernetes.NewForConfig refuses CA data that is no PEM), and the
\* request that carries the TokenReview, token included.
ForwardSend(w) ==
    /\ pc[w] = "forward"
    /\ LET c == ForwardTarget(lv[w].detected)
           rc == buildRESTConfig(c)
       IN IF c \notin clusters
          THEN ForwardFails(w, "cluster not found: " \o c) /\ msg' = msg
          ELSE IF rc.CAData # None /\ ~PEMOk(rc.CAData)
          THEN /\ ForwardFails(w, "creating kubernetes client: unable to load root certificates")
               /\ msg' = msg
          ELSE /\ msg' = [msg EXCEPT ![w] =
                              Message("tokenreview", rc.Host, rc.BearerToken, rc.CAData, req[w].token)]
               /\ lv' = [lv EXCEPT ![w].got = [Token |-> rc.BearerToken, CACert |-> rc.CAData],
                                    ![w].nfwd = @ + 1]
               /\ pc' = [pc EXCEPT ![w] = "fwd_wait"]
               /\ resp' = resp
    /\ UNCHANGED <<boot, agent, clusters, inCluster, credentials, secret, verifiers, vmLock, req>>
    /\ ctx' = ContextAfter(w)

\* What the detected cluster's TokenReview API answers: a status, with the
\* TypeMeta left empty by the client.
UpstreamResults(rawToken) ==
    {[apiVersion |-> "", kind |-> "", authenticated |-> TRUE, error |-> "",
      user |-> Jwt(rawToken).sub, audiences |-> {K8sIssuer}],
     [apiVersion |-> "", kind |-> "", authenticated |-> FALSE,
      error |-> "token has been invalidated", user |-> "", audiences |-> {}]}

RelayLocalVerdict(result) ==
    [code |-> 200, apiVersion |-> "authentication.k8s.io/v1", kind |-> "TokenReview",
     authenticated |-> TRUE, error |-> "", user |-> result.user,
     audiences |-> result.audiences]

\* The response for a result of forwardTokenReview: the result as it came, with
\* the TypeMeta filled in.
Relay(result) ==
    [code |-> 200, apiVersion |-> "authentication.k8s.io/v1", kind |-> "TokenReview",
     authenticated |-> result.authenticated, error |-> result.error,
     user |-> result.user, audiences |-> result.audiences]

\* The errors TokenReviews().Create returns: the connection fails, or the API
\* server answers with an error status.
UpstreamErrors == {"dial tcp: connection refused", "Unauthorized"}

\* A Kubernetes API server does not serve the TokenReview API to a caller
\* that presents no bearer credential.
Serves(bearer) == bearer # ""

\* The rest of forwardTokenReview and of ServeHTTP: the call's error, or the
\* result with its TypeMeta filled in.
ForwardReturns(w) ==
    /\ pc[w] = "fwd_wait"
    /\ \/ \E err \in UpstreamErrors :
            /\ resp' = [resp EXCEPT ![w] = writeUnauthenticated(
                            ForwardError("calling TokenReview API: " \o err))]
            /\ lv' = [lv EXCEPT ![w] = Final([@ EXCEPT !.ferr =
                                                  "calling TokenReview API: " \o err])]
       \/ \E result \in UpstreamResults(req[w].token) :
            /\ ctx[w] = "live"
            /\ Serves(msg[w].bearer)
            /\ resp' = [resp EXCEPT ![w] = Relay(result)]
            /\ lv' = [lv EXCEPT ![w] = Final(@)]
    /\ pc' = [pc EXCEPT ![w] = "done"]
    /\ msg' = [msg EXCEPT ![w] = NoMessage]
    /\ UNCHANGED <<boot, agent, clusters, inCluster, credentials, secret, verifiers, vmLock, req>>
    /\ ctx' = ContextAfter(w)

\* ------------------------------------------------ registration: ServeHTTP
\* The requests agents and others send to /register: the Authorization header,
\* whether the body decodes, and the cluster it names.
RegisterRequests ==
    {[auth |-> "", token |-> "", decodes |-> TRUE, cluster |-> "b"],
     [auth |-> "Basic", token |-> "", decodes |-> TRUE, cluster |-> "b"],
     [auth |-> "Bearer", token |-> "ag-b", decodes |-> FALSE, cluster |-> ""],
     [auth |-> "Bearer", token |-> "ag-b", decodes |-> TRUE, cluster |-> ""],
     [auth |-> "", token |-> "", decodes |-> FALSE, cluster |-> ""],
     [auth |-> "Bearer", token |-> InvalidToken, decodes |-> TRUE, cluster |-> "zz"]} \cup
    {[auth |-> "Bearer", token |-> h[1], decodes |-> TRUE, cluster |-> h[2]] :
        h \in {<<"ag-b", "b">>, <<"ag-c", "c">>, <<"ag-c", "b">>, <<"wl-b", "b">>,
               <<"wl-local", "local">>, <<InvalidToken, "b">>}}

\* The credentials object the agent's register puts in the body of a request it
\* authenticates with token: the same token, and the CA file in base64.
registerOtherToken(token, caCert) == [token |-> "ag-b2", ca_cert |-> B64Encode(caCert)]
register(token, caCert) == [token |-> token, ca_cert |-> B64Encode(caCert)]

\* The credentials object of a request body: what the agent sends (with a CA
\* file that is a certificate or not), or what another client sends with the
\* agent's token: another token of its cluster, or a CA that is no base64.  The
\* handler reads it only after authorization, which is where the model picks it.
RegisterCredentials(agentToken) ==
    {register(agentToken, "ca1"),
     [token |-> "ag-b2", ca_cert |-> B64Encode("ca2")],
     register(agentToken, "junk"),
     [token |-> agentToken, ca_cert |-> NotBase64]}

\* The cluster whose verifier the handler checks the agent token against.
RegisterVerifierAny(cluster) == IF cluster = "b" THEN "c" ELSE "b"
RegisterVerifier(cluster) == cluster

\* RegisterHandler.ServeHTTP, up to the call of Verify
StartRegister(w) ==
    /\ CanStart(w)
    /\ \E r \in RegisterRequests :
        /\ req' = [req EXCEPT ![w] = [kind |-> "register", auth |-> r.auth,
                                      token |-> r.token, decodes |-> r.decodes,
                                      cluster |-> r.cluster]]
        /\ IF r.auth = ""
           THEN /\ resp' = [resp EXCEPT ![w] = RegisterError(401, "unauthorized")]
                /\ pc' = [pc EXCEPT ![w] = "done"]
                /\ lv' = lv
           ELSE IF r.auth # "Bearer"
           THEN /\ resp' = [resp EXCEPT ![w] = RegisterError(401, "unauthorized")]
                /\ pc' = [pc EXCEPT ![w] = "done"]
                /\ lv' = lv
           ELSE IF ~r.decodes
           THEN /\ resp' = [resp EXCEPT ![w] = RegisterError(400, "invalid_request")]
                /\ pc' = [pc EXCEPT ![w] = "done"]
                /\ lv' = lv
           ELSE IF r.cluster = ""
           THEN /\ resp' = [resp EXCEPT ![w] = RegisterError(400, "invalid_request")]
                /\ pc' = [pc EXCEPT ![w] = "done"]
                /\ lv' = lv
           ELSE IF r.cluster \notin clusters
           THEN /\ resp' = [resp EXCEPT ![w] = RegisterError(400, "cluster_not_found")]
                /\ pc' = [pc EXCEPT ![w] = "done"]
                /\ lv' = lv
           ELSE /\ lv' = [lv EXCEPT ![w] = [NoLocals EXCEPT !.cur = RegisterVerifier(r.cluster)]]
                /\ pc' = [pc EXCEPT ![w] = "v_rlock"]
                /\ resp' = resp
    /\ UNCHANGED <<boot, agent, clusters, inCluster, credentials, secret, verifiers, vmLock, msg>>
    /\ ctx' = ContextAfter(w)

\* Store.Set's critical section: s.credentials[cluster] = creds
StoreSetMerge(m, cluster, creds) ==
    IF cluster \in DOMAIN m
    THEN Put(m, cluster, [Token |-> creds.Token, CACert |-> m[cluster].CACert])
    ELSE Put(m, cluster, creds)
StoreSetOnly(m, cluster, creds) == [x \in {cluster} |-> creds]
StoreSet(m, cluster, creds) == Put(m, cluster, creds)

\* RegisterHandler.ServeHTTP after Verify: authorization, the CA's decoding,
\* and the in-memory part of Store.Set.
RegisterStore(w) ==
    /\ pc[w] = "reg_store"
    /\ LET c == req[w].cluster IN
       IF ~IsAgentAuthorized(c, lv[w].claims.Subject)
       THEN /\ resp' = [resp EXCEPT ![w] = RegisterError(403, "unauthorized_agent")]
            /\ pc' = [pc EXCEPT ![w] = "done"]
            /\ lv' = [lv EXCEPT ![w] = Final(@)]
            /\ credentials' = credentials
       ELSE \E body \in RegisterCredentials(req[w].token) :
            LET ca == ParseBase64CACert(body.ca_cert)
                creds == [Token |-> body.token, CACert |-> ca.val]
            IN IF ~ca.ok
               THEN /\ resp' = [resp EXCEPT ![w] = RegisterError(400, "invalid_request")]
                    /\ pc' = [pc EXCEPT ![w] = "done"]
                    /\ lv' = [lv EXCEPT ![w] = Final(@)]
                    /\ credentials' = credentials
               ELSE /\ credentials' = StoreSet(credentials, c, creds)
                    /\ lv' = [lv EXCEPT ![w].creds = creds]
                    /\ pc' = [pc EXCEPT ![w] =
                                 IF inCluster THEN "reg_snapshot" ELSE "reg_invalidate"]
                    /\ resp' = resp
    /\ UNCHANGED <<boot, agent, clusters, inCluster, secret, verifiers, vmLock, req, msg>>
    /\ ctx' = ContextAfter(w)

\* Store.saveToSecret's critical section: the copy of all credentials
SaveSnapshot(w) ==
    /\ pc[w] = "reg_snapshot"
    /\ lv' = [lv EXCEPT ![w].snapshot = SecretData(credentials)]
    /\ pc' = [pc EXCEPT ![w] = "reg_save"]
    /\ UNCHANGED <<boot, agent, clusters, inCluster, credentials, secret, verifiers, vmLock, req, resp, msg>>
    /\ ctx' = ContextAfter(w)

\* The in-memory map when Store.Set returns saveToSecret's error: the
\* assignment made before is left in place.
SetFailedRollback(m, cluster) == Drop(m, cluster)
SetFailed(m, cluster) == m

\* Store.saveToSecret's Update (Create when the Secret does not exist), and the
\* handler's answer when Set returns an error.
SaveUpdate(w) ==
    /\ pc[w] = "reg_save"
    /\ \/ /\ ctx[w] = "live"
          /\ secret' = [found |-> TRUE, data |-> lv[w].snapshot]
          /\ credentials' = credentials
          /\ pc' = [pc EXCEPT ![w] = "reg_invalidate"]
          /\ lv' = [lv EXCEPT ![w].snapshot = EmptyMap]
          /\ resp' = resp
       \/ /\ secret' = secret
          /\ credentials' = SetFailed(credentials, req[w].cluster)
          /\ pc' = [pc EXCEPT ![w] = "done"]
          /\ lv' = [lv EXCEPT ![w] = Final(@)]
          /\ resp' = [resp EXCEPT ![w] = RegisterError(500, "internal_error")]
    /\ UNCHANGED <<boot, agent, clusters, inCluster, verifiers, vmLock, req, msg>>
    /\ ctx' = ContextAfter(w)

\* VerifierManager.InvalidateVerifier's delete
InvalidateNothing(m, clusterName) == m
Invalidate(m, clusterName) == Drop(m, clusterName)

\* InvalidateVerifier under the write lock, then the accepted response
InvalidateVerifier(w) ==
    /\ pc[w] = "reg_invalidate"
    /\ vmLock = 0
    /\ verifiers' = Invalidate(verifiers, req[w].cluster)
    /\ resp' = [resp EXCEPT ![w] = RegisterAccepted]
    /\ pc' = [pc EXCEPT ![w] = "done"]
    /\ lv' = [lv EXCEPT ![w] = Final(@)]
    /\ UNCHANGED <<boot, agent, clusters, inCluster, credentials, secret, vmLock, req, msg>>
    /\ ctx' = ContextAfter(w)

\* The client of an in-flight request goes away: net/http cancels r.Context().
\* From then on every call made with the context fails.
Cancel(w) ==
    /\ pc[w] \notin {"idle", "done"}
    /\ ctx[w] = "live"
    /\ ctx' = [ctx EXCEPT ![w] = "canceled"]
    /\ UNCHANGED <<boot, agent, clusters, inCluster, credentials, secret, verifiers, vmLock,
                   pc, req, lv, resp, msg>>

\* ------------------------------------------------------------ the system
Next ==
    \E w \in Workers :
        \/ Cancel(w)
        \/ StartReview(w)
        \/ StartRegister(w)
        \/ VerifyRLock(w)
        \/ VerifyBuild(w)
        \/ DiscoveryReturns(w)
        \/ VerifyToken(w)
        \/ JWKSReturns(w)
        \/ ForwardSend(w)
        \/ ForwardReturns(w)
        \/ RegisterStore(w)
        \/ SaveSnapshot(w)
        \/ SaveUpdate(w)
        \/ InvalidateVerifier(w)

Spec == Init /\ [][Next]_vars

\* ------------------------------------------------- the agent (cmd/agent)
MaxCycles == 2         \* ticks of the refresh ticker that are explored

\* registerWithRetry's constants; durations are in seconds.
maxRetries == 10
baseDelay == 5
maxDelay == 300

\* time.Duration is an int64 count of nanoseconds: baseDelay * k fits in it
\* for k up to MaxShift = (2^63 - 1) \div (5 * 10^9); beyond that the product
\* wraps around.
MaxShift == 1844674407
Wrapped == -1
DurationMul(d, k) == IF k > MaxShift THEN Wrapped ELSE d * k

\* registerWithRetry's delay after the failure of attempt i
backoffDelayUncapped(i) == DurationMul(baseDelay, 2^i)
backoffDelay(i) ==
    LET delay == DurationMul(baseDelay, 2^i)
    IN IF delay > maxDelay THEN maxDelay ELSE delay

\* The errors register returns.
RegisterFailures ==
    {"reading token", "reading CA cert", "sending request", "registration failed"}

\* What main does when registerWithRetry returns an error: log.Fatalf for the
\* initial registration, log.Printf in the refresh loop.
AfterExhausted(cycle) == IF cycle = 0 THEN "exited" ELSE "ticker"

\* main, up to the first call of register
AgentStart ==
    /\ agent.pc = "off"
    /\ agent' = [agent EXCEPT !.pc = "register"]
    /\ UNCHANGED <<boot, clusters, inCluster, credentials, secret, verifiers, vmLock,
                   pc, req, lv, resp, msg, ctx>>

\* One iteration of registerWithRetry's loop up to time.Sleep, or its return
\* nil to main, which then waits for the ticker.
AgentRegister ==
    /\ agent.pc = "register"
    /\ \/ agent' = [agent EXCEPT !.pc = "ticker", !.i = 0, !.delay = 0, !.lastErr = None]
       \/ \E err \in RegisterFailures :
            agent' = [agent EXCEPT !.pc = "sleep", !.lastErr = err,
                                   !.delay = backoffDelay(agent.i)]
    /\ UNCHANGED <<boot, clusters, inCluster, credentials, secret, verifiers, vmLock,
                   pc, req, lv, resp, msg, ctx>>

\* registerWithRetry's loop condition after the i++ that follows attempt i
LoopForever(i) == TRUE
LoopContinues(i) == i + 1 < maxRetries

\* time.Sleep returns; the loop goes on, or registerWithRetry returns
\* "max retries exceeded" to main.
AgentSleep ==
    /\ agent.pc = "sleep"
    /\ IF LoopContinues(agent.i)
       THEN agent' = [agent EXCEPT !.pc = "register", !.i = @ + 1]
       ELSE agent' = [agent EXCEPT !.pc = AfterExhausted(agent.cycle), !.i = @ + 1]
    /\ UNCHANGED <<boot, clusters, inCluster, credentials, secret, verifiers, vmLock,
                   pc, req, lv, resp, msg, ctx>>

\* The refresh ticker fires: the next registerWithRetry starts.
AgentTick ==
    /\ agent.pc = "ticker"
    /\ agent.cycle < MaxCycles
    /\ agent' = [agent EXCEPT !.pc = "register", !.cycle = @ + 1, !.i = 0,
                              !.delay = 0, !.lastErr = None]
    /\ UNCHANGED <<boot, clusters, inCluster, credentials, secret, verifiers, vmLock,
                   pc, req, lv, resp, msg, ctx>>

\* The agent process alone, beside a service that handles no request.
AgentInit ==
    /\ clusters = {"b"}
    /\ inCluster = FALSE
    /\ secret = SecretNotFound
    /\ credentials = EmptyMap
    /\ verifiers = EmptyMap
    /\ vmLock = 0
    /\ pc = [w \in Workers |-> "idle"]
    /\ req = [w \in Workers |-> NoRequest]
    /\ lv = [w \in Workers |-> NoLocals]
    /\ resp = [w \in Workers |-> NoResponse]
    /\ msg = [w \in Workers |-> NoMessage]
    /\ ctx = [w \in Workers |-> "live"]
    /\ agent = AgentNotStarted
    /\ boot = Serving

AgentNext == AgentStart \/ AgentRegister \/ AgentSleep \/ AgentTick

AgentSpec == AgentInit /\ [][AgentNext]_vars

\* register returns (its http.Client has a 30 s timeout) and time.Sleep returns
\* (its argument is at most maxDelay).
AgentFairSpec == AgentSpec /\ WF_vars(AgentRegister) /\ WF_vars(AgentSleep)

\* --------------------------------- the host-routed TokenReview handler
\* Host headers, as their dot-separated labels with the port removed.
Hosts ==
    {<<"api", "kube-fed", "svc">>, <<"api", "b", "kube-fed", "svc">>,
     <<"api", "c", "kube-fed">>, <<"api", "zz", "kube-fed", "svc">>,
     <<"www", "b", "kube-fed">>, <<"api", "b">>, <<"localhost">>}

\* extractClusterFromHost
extractClusterFromHost(parts) ==
    IF Len(parts) < 2 THEN ""
    ELSE IF parts[1] # "api" THEN ""
    ELSE IF parts[2] = "kube-fed" THEN "local"
    ELSE IF Len(parts) >= 3 /\ parts[3] = "kube-fed" THEN parts[2]
    ELSE ""

HostTokens == (ReviewTokens \ {"unk"}) \cup {"iss-b", "aud-b"}

\* TokenReviewHandler.ServeHTTP of the host-routed handler, up to its call of
\* Verify for the cluster the Host header names.
StartHostReview(w) ==
    /\ CanStart(w)
    /\ \E host \in Hosts, body \in {[decodes |-> FALSE, token |-> ""]} \cup
                                   {[decodes |-> TRUE, token |-> t] : t \in HostTokens} :
        LET cluster == extractClusterFromHost(host) IN
        /\ req' = [req EXCEPT ![w] = [kind |-> "hostreview", decodes |-> body.decodes,
                                      token |-> body.token, cluster |-> cluster]]
        /\ IF cluster = ""
           THEN /\ resp' = [resp EXCEPT ![w] =
                              writeError(400, "unable to determine cluster from host header")]
                /\ pc' = [pc EXCEPT ![w] = "done"]
                /\ lv' = lv
           ELSE IF ~body.decodes
           THEN /\ resp' = [resp EXCEPT ![w] = writeError(400, "invalid request body")]
                /\ pc' = [pc EXCEPT ![w] = "done"]
                /\ lv' = lv
           ELSE IF body.token = ""
           THEN /\ resp' = [resp EXCEPT ![w] = writeError(400, "token is required")]
                /\ pc' = [pc EXCEPT ![w] = "done"]
                /\ lv' = lv
           ELSE /\ lv' = [lv EXCEPT ![w] = [NoLocals EXCEPT !.cur = cluster]]
                /\ pc' = [pc EXCEPT ![w] = "v_rlock"]
                /\ resp' = resp
    /\ UNCHANGED <<boot, agent, clusters, inCluster, credentials, secret, verifiers, vmLock, msg>>
    /\ ctx' = ContextAfter(w)

\* The service with the host-routed handler as the caller of Verify.
VerifyNext ==
    \E w \in Workers :
        \/ Cancel(w)
        \/ StartHostReview(w)
        \/ VerifyRLock(w)
        \/ VerifyBuild(w)
        \/ DiscoveryReturns(w)
        \/ VerifyToken(w)
        \/ JWKSReturns(w)

VerifySpec == Init /\ [][VerifyNext]_vars

\* ------------------------------------------- the service's main (cmd/server)
\* The configuration files main may be started with: missing, not YAML, or a
\* clusters map over some of the cluster names, some of them without issuer.
ClusterConfigOf(c, hasIssuer) ==
    [Issuer |-> IF hasIssuer THEN Issuer(c) ELSE "", APIServer |-> APIServer(c)]
ConfigFiles ==
    {NoFile, [exists |-> TRUE, parses |-> FALSE, clusters |-> EmptyMap]} \cup
    {[exists |-> TRUE, parses |-> TRUE,
      clusters |-> [c \in S |-> ClusterConfigOf(c, c \notin M)]] :
        S \in SUBSET ClusterNames, M \in SUBSET ClusterNames}

LoadUnchecked(file) ==
    IF ~file.exists
    THEN {[cfg |-> EmptyMap, err |-> "reading config file: no such file or directory"]}
    ELSE IF ~file.parses
    THEN {[cfg |-> EmptyMap, err |-> "parsing config file: yaml: unmarshal error"]}
    ELSE {[cfg |-> file.clusters, err |-> None]}

\* config.Load: the results it may return.  The range over the clusters map
\* reports whichever cluster without issuer it meets first.
Load(file) ==
    IF ~file.exists
    THEN {[cfg |-> EmptyMap, err |-> "reading config file: no such file or directory"]}
    ELSE IF ~file.parses
    THEN {[cfg |-> EmptyMap, err |-> "parsing config file: yaml: unmarshal error"]}
    ELSE IF DOMAIN file.clusters = {}
    THEN {[cfg |-> EmptyMap, err |-> "no clusters configured"]}
    ELSE IF \E name \in DOMAIN file.clusters : file.clusters[name].Issuer = ""
    THEN {[cfg |-> EmptyMap, err |-> "cluster " \o name \o ": issuer is required"] :
            name \in {n \in DOMAIN file.clusters : file.clusters[n].Issuer = ""}}
    ELSE {[cfg |-> file.clusters, err |-> None]}

\* The Secrets an earlier run, or somebody else, may have left: none, both keys
\* of "b", and Secrets in which "c" has only one of its two keys.
SecretKeySets ==
    {{<<"b", "token">>, <<"b", "ca.crt">>},
     {<<"b", "token">>, <<"b", "ca.crt">>, <<"c", "token">>},
     {<<"b", "token">>, <<"b", "ca.crt">>, <<"c", "token">>, <<"c", "ca.crt">>},
     {<<"c", "ca.crt">>}}
StoredTokens == {"boot-b", "ag-b", "exp-b", "unk"}
BootSecrets ==
    {SecretNotFound} \cup
    {[found |-> TRUE, data |-> [k \in K |-> IF k[2] = "token" THEN t ELSE "ca1"]] :
        K \in SecretKeySets, t \in StoredTokens}

NewStoreStrict(inCl, s, readFails) ==
    IF inCl /\ readFails
    THEN [credentials |-> EmptyMap, client |-> TRUE, err |-> "getting secret: forbidden",
          log |-> {}]
    ELSE [credentials |-> IF inCl THEN loadFromSecret(s) ELSE EmptyMap, client |-> inCl,
          err |-> None, log |-> {}]

\* credentials.NewStore: the store it returns (its credentials, whether it has
\* a client to persist with), its error and what it logs.
NewStore(inCl, s, readFails) ==
    IF ~inCl
    THEN [credentials |-> EmptyMap, client |-> FALSE, err |-> None,
          log |-> {"Not running in cluster, credentials will not be persisted"}]
    ELSE IF readFails
    THEN [credentials |-> EmptyMap, client |-> TRUE, err |-> None,
          log |-> {"Failed to load credentials from secret"}]
    ELSE IF ~s.found
    THEN [credentials |-> EmptyMap, client |-> TRUE, err |-> None,
          log |-> {"Credentials secret not found, starting fresh"}]
    ELSE [credentials |-> loadFromSecret(s), client |-> TRUE, err |-> None,
          log |-> {"Loaded credentials for cluster " \o c : c \in DOMAIN loadFromSecret(s)}]

\* main before config.Load
BootInit ==
    /\ boot \in {[Serving EXCEPT !.pc = "load", !.file = f, !.readFails = r] :
                    f \in ConfigFiles, r \in BOOLEAN}
    /\ inCluster \in BOOLEAN
    /\ secret \in (IF inCluster THEN BootSecrets ELSE {SecretNotFound})
    /\ (~inCluster => ~boot.readFails)
    /\ clusters = {}
    /\ credentials = EmptyMap
    /\ verifiers = EmptyMap
    /\ vmLock = 0
    /\ pc = [w \in Workers |-> "idle"]
    /\ req = [w \in Workers |-> NoRequest]
    /\ lv = [w \in Workers |-> NoLocals]
    /\ resp = [w \in Workers |-> NoResponse]
    /\ msg = [w \in Workers |-> NoMessage]
    /\ ctx = [w \in Workers |-> "live"]
    /\ agent = AgentNotStarted

\* main: config.Load, and log.Fatalf on its error
BootLoad ==
    /\ boot.pc = "load"
    /\ \E r \in Load(boot.file) :
          IF r.err # None
          THEN /\ boot' = [boot EXCEPT !.pc = "fatal", !.err = r.err]
               /\ clusters' = clusters
          ELSE /\ boot' = [boot EXCEPT !.pc = "store", !.cfg = r.cfg]
               /\ clusters' = DOMAIN r.cfg
    /\ UNCHANGED <<inCluster, credentials, secret, verifiers, vmLock,
                   pc, req, lv, resp, msg, ctx, agent>>

\* main: credentials.NewStore, log.Fatalf on its error, then server.New
BootNewStore ==
    /\ boot.pc = "store"
    /\ LET st == NewStore(inCluster, secret, boot.readFails)
       IN /\ boot' = [boot EXCEPT !.pc = IF st.err # None THEN "fatal" ELSE "serving",
                                  !.storeErr = st.err, !.log = st.log]
          /\ credentials' = st.credentials
    /\ UNCHANGED <<clusters, inCluster, secret, verifiers, vmLock,
                   pc, req, lv, resp, msg, ctx, agent>>

\* Store.LoadFromFiles(cluster, tokenPath, caPath) with the paths of the
\* cluster's configuration: both files are read, then the entry is assigned.
\* os.ReadFile fails for a path that is empty or unreadable.
LoadFromFiles(m, cluster, tokenOk, caOk) ==
    IF TokenPath(cluster) = "" \/ ~tokenOk
    THEN [credentials |-> m, err |-> "reading token file"]
    ELSE IF CACertPath(cluster) = "" \/ ~caOk
    THEN [credentials |-> m, err |-> "reading CA file"]
    ELSE [credentials |-> Put(m, cluster, [Token |-> FileToken(cluster),
                                            CACert |-> FileCA(cluster)]),
          err |-> None]

\* A call of Store.LoadFromFiles for initial setup, before requests are served
StoreLoadFromFiles ==
    /\ boot.pc = "serving"
    /\ \A w \in Workers : pc[w] = "idle"
    /\ \E c \in ClusterNames, tokenOk \in BOOLEAN, caOk \in BOOLEAN :
          LET r == LoadFromFiles(credentials, c, tokenOk, caOk)
          IN /\ credentials' = r.credentials
             /\ boot' = [boot EXCEPT !.storeErr = r.err,
                           !.log = IF r.err = None
                                   THEN {"Loaded bootstrap credentials for cluster " \o c
                                            \o " from files"}
                                   ELSE @]
    /\ UNCHANGED <<clusters, inCluster, secret, verifiers, vmLock,
                   pc, req, lv, resp, msg, ctx, agent>>

\* The Store from its construction on: NewStore, LoadFromFiles, then the
\* registration handler's Set.
StoreInit ==
    /\ clusters \in Configs
    /\ inCluster \in BOOLEAN
    /\ secret \in (IF inCluster THEN InitialSecrets ELSE {SecretNotFound})
    /\ boot \in {[Serving EXCEPT !.pc = "store", !.readFails = r] : r \in BOOLEAN}
    /\ (~inCluster => ~boot.readFails)
    /\ credentials = EmptyMap
    /\ verifiers = EmptyMap
    /\ vmLock = 0
    /\ pc = [w \in Workers |-> "idle"]
    /\ req = [w \in Workers |-> NoRequest]
    /\ lv = [w \in Workers |-> NoLocals]
    /\ resp = [w \in Workers |-> NoResponse]
    /\ msg = [w \in Workers |-> NoMessage]
    /\ ctx = [w \in Workers |-> "live"]
    /\ agent = AgentNotStarted

StoreNext ==
    \/ BootNewStore
    \/ StoreLoadFromFiles
    \/ \E w \in Workers :
            \/ Cancel(w)
            \/ StartRegister(w)
            \/ VerifyRLock(w)
            \/ VerifyBuild(w)
            \/ DiscoveryReturns(w)
            \/ VerifyToken(w)
            \/ JWKSReturns(w)
            \/ RegisterStore(w)
            \/ SaveSnapshot(w)
            \/ SaveUpdate(w)
            \/ InvalidateVerifier(w)

StoreSpec == StoreInit /\ [][StoreNext]_vars

\* extractJWTExpiration and getTokenStatus: the payload is decoded, the
\* signature is not looked at; a token that is no JWT has status "unknown".
\* How long a live token still has decides between the other two.
getTokenStatusSigned(creds) ==
    IF creds.Token = "" \/ ~Jwt(creds.Token).ok
       \/ Jwt(creds.Token).key \notin {SigningKey(c) : c \in ClusterNames}
    THEN {"unknown"}
    ELSE IF ~Jwt(creds.Token).live THEN {"expired"}
    ELSE {"valid", "expiring_soon"}
getTokenStatus(creds) ==
    IF creds.Token = "" \/ ~Jwt(creds.Token).ok THEN {"unknown"}
    ELSE IF ~Jwt(creds.Token).live THEN {"expired"}
    ELSE {"valid", "expiring_soon"}

\* The orders in which a range over a map with these keys may run.
Orders(S) ==
    {o \in [1..Cardinality(S) -> S] : \A i, j \in 1..Cardinality(S) : i # j => o[i] # o[j]}

\* ClustersHandler.ServeHTTP: one ClusterInfo per entry of config.Clusters,
\* with a token status when the store has credentials for the cluster.
ListClusters ==
    /\ boot.pc = "serving"
    /\ \E o \in Orders(DOMAIN boot.cfg) :
       \E st \in [DOMAIN boot.cfg -> {None, "unknown", "expired", "valid", "expiring_soon"}] :
          /\ \A c \in DOMAIN boot.cfg :
                IF Get(c).ok THEN st[c] \in getTokenStatus(Get(c).creds) ELSE st[c] = None
          /\ boot' = [boot EXCEPT !.listing =
                        [i \in DOMAIN o |-> [Name |-> o[i], Issuer |-> boot.cfg[o[i]].Issuer,
                                             APIServer |-> boot.cfg[o[i]].APIServer,
                                             TokenStatus |-> st[o[i]]]]]
    /\ UNCHANGED <<clusters, inCluster, credentials, secret, verifiers, vmLock,
                   pc, req, lv, resp, msg, ctx, agent>>

BootNext == BootLoad \/ BootNewStore \/ ListClusters

BootSpec == BootInit /\ [][BootNext]_vars

\* ============================================================ properties
Reviews == {w \in Workers : req[w].kind = "review"}
Registers == {w \in Workers : req[w].kind = "register"}
InDetection(w) == pc[w] \in {"v_rlock", "v_wlock", "v_discovery", "v_check", "v_jwks"}

\* The bearer credentials the service may hold for a cluster: the token file of
\* its configuration, a token loaded from the Secret, a token an agent
\* registered, or none.
OwnCredentials(c) ==
    {""} \cup (IF TokenPath(c) # "" THEN {FileToken(c)} ELSE {})
         \cup {s.data[<<c, "token">>] : s \in {x \in InitialSecrets :
                                               <<c, "token">> \in DOMAIN x.data}}
         \cup {b.token : b \in UNION {RegisterCredentials(r.token) : r \in RegisterRequests}}

\* C1: while a TokenReview request is in its detection phase, every outbound
\* message of that request is a discovery or key-set fetch that carries the
\* cluster's own bearer credential and holds the presented token neither in
\* its Authorization header nor in its body.
C1_NoTokenInDetection ==
    \A w \in Reviews :
        InDetection(w) =>
            /\ msg[w].kind \in {None, "discovery", "jwks"}
            /\ msg[w].body = ""
            /\ msg[w].bearer # req[w].token
            /\ msg[w].bearer \in OwnCredentials(lv[w].cur)
            /\ (msg[w].kind # None =>
                  msg[w].to \in {DiscoveryURL(lv[w].cur), Issuer(lv[w].cur)}
                                   \cup {d.jwks_uri.host : d \in DiscoveryDocs(lv[w].cur)})

\* A key-set fetch of a detection phase is in flight, with a bearer credential.
C1_Witness ==
    \E w \in Reviews : pc[w] = "v_jwks" /\ msg[w].kind = "jwks" /\ msg[w].bearer # ""

\* C2: a TokenReview request forwards its token at most once, the forwarding
\* call goes to the endpoint of the cluster detection returned and is issued
\* only once detection has succeeded; a request whose detection failed, such
\* as one for "invalid.token.here", has issued no forwarding call.
C2_ForwardOnceToDetected ==
    \A w \in Reviews :
        /\ lv[w].nfwd <= 1
        /\ (msg[w].kind = "tokenreview") = (pc[w] = "fwd_wait")
        /\ InDetection(w) => lv[w].nfwd = 0
        /\ lv[w].nfwd > 0 => lv[w].detected \in clusters
        /\ pc[w] = "fwd_wait" =>
              /\ lv[w].nfwd = 1
              /\ msg[w].to = buildRESTConfig(lv[w].detected).Host
              /\ msg[w].body = req[w].token
        /\ (pc[w] = "done" /\ lv[w].detected = None) => lv[w].nfwd = 0
        /\ req[w].token = InvalidToken => lv[w].nfwd = 0

\* A request was forwarded once and answered by the detected cluster.
C2_Witness ==
    \E w \in Reviews : pc[w] = "done" /\ lv[w].nfwd = 1 /\ resp[w].authenticated
                        /\ lv[w].detected = "b" /\ Cardinality(clusters) = 2

\* The configured cluster whose key signed the token, if any.
SignedBy(rawToken) == {c \in clusters : Jwt(rawToken).ok /\ Jwt(rawToken).key = SigningKey(c)}
DetectionOver(w) == pc[w] \in {"forward", "fwd_wait", "done"} /\ req[w].decodes /\ req[w].token # ""

\* C3, as stated: for a token signed by the key of a configured cluster C,
\* detectCluster returns C.
C3_AsStated ==
    \A w \in Reviews :
        DetectionOver(w) =>
            \A c \in SignedBy(req[w].token) : lv[w].detected = c

\* C3: detectCluster never returns a cluster other than the one whose key
\* signed the token: what it returns for a token signed by cluster C's key is
\* C, or no cluster at all when C's verifier cannot be built, its keys cannot
\* be fetched, or the token has expired; and it returns no cluster for a token
\* that no configured cluster's key signed.
C3_OnlySigningCluster ==
    \A w \in Reviews :
        lv[w].detected # None =>
            /\ lv[w].detected \in SignedBy(req[w].token)
            /\ Jwt(req[w].token).live
            /\ lv[w].claims.Cluster = lv[w].detected

\* Detection returned the signing cluster with two clusters configured.
C3_Witness ==
    \E w \in Reviews : /\ pc[w] = "forward" /\ lv[w].detected = "b"
                       /\ req[w].token = "wl-b" /\ Cardinality(clusters) = 2

\* C4: whenever detection fails, the response is authenticated=false with the
\* one fixed error string, whatever the configured clusters are and whatever
\* made each of them fail.
C4_GenericRejection ==
    \A w \in Reviews :
        (pc[w] = "done" /\ DetectionOver(w) /\ lv[w].detected = None) =>
            resp[w] = writeUnauthenticated("token not valid for any configured cluster")

\* A token signed by a configured cluster's key was rejected with two
\* clusters configured.
C4_Witness ==
    \E w \in Reviews : /\ pc[w] = "done" /\ lv[w].detected = None
                       /\ req[w].token = "wl-b" /\ clusters = {"b", "c"}
                       /\ resp[w].error = DetectionFailedMsg

\* A registration whose token is signed by the named cluster's key and whose
\* subject is not that cluster's allow-listed ServiceAccount.
Unauthorized(w) ==
    /\ req[w].kind = "register"
    /\ req[w].auth = "Bearer" /\ req[w].decodes /\ req[w].cluster \in clusters
    /\ Jwt(req[w].token).key = SigningKey(req[w].cluster)
    /\ ~(req[w].cluster \in DOMAIN Agents /\ Agents[req[w].cluster] = Jwt(req[w].token).sub)
Steps(w) == pc'[w] # pc[w]

\* C5, as stated: no step of such a registration changes the Credential Store
\* or the verifier cache.
C5_AsStated ==
    [][\A w \in Workers : (Unauthorized(w) /\ Steps(w)) =>
            (credentials' = credentials /\ verifiers' = verifiers)]_vars

\* C5: a registration whose token verifies under the named cluster's verifier
\* and whose subject is not allow-listed is answered unauthorized_agent; no
\* step of it changes the Credential Store, and none removes or replaces an
\* entry of the verifier cache (its Verify may add the cluster's entry).
C5_UnauthorizedNoMutation ==
    /\ [](\A w \in Workers :
            (Unauthorized(w) /\ pc[w] = "done" /\ lv[w].claims.Cluster # None) =>
                resp[w] = RegisterError(403, "unauthorized_agent"))
    /\ [][\A w \in Workers : (Unauthorized(w) /\ Steps(w)) =>
            /\ credentials' = credentials
            /\ \A c \in DOMAIN verifiers :
                  c \in DOMAIN verifiers' /\ verifiers'[c] = verifiers[c]]_vars

\* An unauthorized registration was rejected after its Verify built and cached
\* the cluster's verifier.
C5_Witness ==
    \E w \in Workers : /\ Unauthorized(w) /\ pc[w] = "done"
                       /\ resp[w] = RegisterError(403, "unauthorized_agent")
                       /\ req[w].cluster \in DOMAIN verifiers

\* C6: the Credential Store's entry for cluster C changes only in the step of
\* a registration that names C, whose token Verify accepted for C and is
\* signed by C's key, and whose subject is C's allow-list entry.
C6_StoreWrittenOnlyVerified ==
    [][\A c \in ClusterNames :
          (/\ c \in DOMAIN credentials'
           /\ (c \notin DOMAIN credentials \/ credentials'[c] # credentials[c])) =>
              \E w \in Workers :
                  /\ req[w].kind = "register" /\ req[w].cluster = c
                  /\ pc[w] = "reg_store"
                  /\ lv[w].claims.Cluster = c
                  /\ Jwt(req[w].token).key = SigningKey(c)
                  /\ c \in DOMAIN Agents /\ Agents[c] = Jwt(req[w].token).sub
                  /\ lv[w].claims.Subject = Agents[c]]_vars

\* A registration stored credentials for "c" while a token of "c" was refused
\* for "b".
C6_Witness ==
    \E w, v \in Registers :
        /\ req[w].cluster = "c" /\ pc[w] = "done" /\ resp[w] = RegisterAccepted
        /\ "c" \in DOMAIN credentials /\ credentials["c"] = lv[w].creds
        /\ req[v].cluster = "b" /\ req[v].token = "ag-c" /\ pc[v] = "done"
        /\ resp[v] = RegisterError(401, "invalid_token")

\* A cached verifier entry was built from the credentials the service holds
\* for the cluster now.
Fresh(c) ==
    LET client == createHTTPClient(c)
    IN client.ok /\ verifiers[c].bearer = client.bearer /\ verifiers[c].ca = client.ca

\* A registration for c has stored its credentials and has not reached
\* InvalidateVerifier, or ended with internal_error before reaching it.
SetNotInvalidated(c) ==
    \E w \in Registers :
        /\ req[w].cluster = c
        /\ \/ pc[w] \in {"reg_snapshot", "reg_save", "reg_invalidate"}
           \/ pc[w] = "done" /\ resp[w] = RegisterError(500, "internal_error")

\* C7: once every registration that stored credentials for C has been accepted
\* (Set, then InvalidateVerifier), the verifier cache holds no entry for C
\* built from older credentials: an entry Verify finds for C was rebuilt from
\* the stored bearer token and CA; and every forwarding call to C carries the
\* bearer token the store holds when the call is made.
C7_InvalidatedNeverReused ==
    /\ [](\A c \in DOMAIN verifiers : Fresh(c) \/ SetNotInvalidated(c))
    /\ [][\A w \in Workers :
            (pc[w] = "forward" /\ pc'[w] = "fwd_wait" /\ APIServer(lv[w].detected) # "") =>
                msg'[w].bearer = (IF lv[w].detected \in DOMAIN credentials
                                  THEN credentials[lv[w].detected].Token ELSE "")]_vars

\* A registration for "b" replaced the credentials loaded at start and was
\* accepted; a later Verify rebuilt b's entry with the new bearer token and the
\* forwarding call carries it.
C7_Witness ==
    \E w \in Registers, v \in Reviews :
        /\ req[w].cluster = "b" /\ pc[w] = "done" /\ resp[w] = RegisterAccepted
        /\ lv[w].creds.Token = "ag-b2"
        /\ "b" \in DOMAIN verifiers /\ verifiers["b"].bearer = "ag-b2"
        /\ verifiers["b"].ca = "ca2"
        /\ pc[v] = "fwd_wait" /\ lv[v].detected = "b" /\ msg[v].bearer = "ag-b2"

\* The (token, CA) pairs that one load or one Set writes.
WrittenTogether ==
    UNION {{loadFromSecret(s)[c] : c \in DOMAIN loadFromSecret(s)} : s \in InitialSecrets}
    \cup {[Token |-> b.token, CACert |-> ParseBase64CACert(b.ca_cert).val] :
            b \in {x \in UNION {RegisterCredentials(r.token) : r \in RegisterRequests} :
                     ParseBase64CACert(x.ca_cert).ok}}

\* C8: every Credentials value the store holds, and every one a Get has handed
\* to a forwarding call or a verifier build, is a (token, CA) pair written by
\* one Set or one load, never the token of one and the CA of another.
C8_NoTornCredentials ==
    /\ \A c \in DOMAIN credentials : credentials[c] \in WrittenTogether
    /\ \A w \in Workers :
          (lv[w].got # NoCreds /\ lv[w].detected # None /\ APIServer(lv[w].detected) # "") =>
              lv[w].got \in WrittenTogether
    /\ \A c \in DOMAIN verifiers :
          verifiers[c].bearer \notin {"", FileToken(c)} =>
              [Token |-> verifiers[c].bearer, CACert |-> verifiers[c].ca] \in WrittenTogether

\* A Set has replaced both fields of b's credentials while a forwarding call
\* holds the pair its Get returned before.
C8_Witness ==
    \E w \in Registers, v \in Reviews :
        /\ req[w].cluster = "b" /\ lv[w].creds = [Token |-> "ag-b2", CACert |-> "ca2"]
        /\ credentials["b"] = lv[w].creds
        /\ pc[v] = "fwd_wait" /\ lv[v].got = [Token |-> "boot-b", CACert |-> "ca1"]

\* The registrations whose Store.Set for c has assigned its entry.
Setters(c) == {w \in Registers : req[w].cluster = c /\ lv[w].creds # NoCreds}

\* C9: a Set for one cluster never removes or alters another cluster's entry,
\* and no Set is lost: the store holds, for each cluster some registration has
\* Set, the credentials of one of those Sets (the last one).
C9_NoLostUpdate ==
    /\ [](\A c \in ClusterNames :
            Setters(c) # {} =>
                /\ c \in DOMAIN credentials
                /\ \E w \in Setters(c) : credentials[c] = lv[w].creds)
    /\ [][\A c \in DOMAIN credentials :
            (c \notin DOMAIN credentials' \/ credentials'[c] # credentials[c]) =>
                \E w \in Registers :
                    req[w].cluster = c /\ pc[w] = "reg_store" /\ Steps(w)]_vars

\* Two registrations, for "b" and for "c", are both between Set's assignment
\* and its return, and the store holds both entries.
C9_Witness ==
    \E w, v \in Registers :
        /\ req[w].cluster = "b" /\ req[v].cluster = "c"
        /\ pc[w] \in {"reg_snapshot", "reg_save"} /\ pc[v] \in {"reg_snapshot", "reg_save"}
        /\ credentials["b"] = lv[w].creds /\ credentials["c"] = lv[v].creds

\* C10, as stated: while a verifier build is blocked in its discovery fetch,
\* the VerifierManager's write lock is not held.
C10_AsStated ==
    \A w \in Workers : pc[w] = "v_discovery" => vmLock = 0

\* No InvalidateVerifier(c) has run: it runs only in a registration for c that
\* is then answered "accepted".
NeverInvalidated(c) ==
    \A w \in Registers : req[w].cluster = c => resp[w] # RegisterAccepted

\* C11: a newly built verifier entry is stored only for a cluster that has no
\* entry (so between two invalidations one entry is stored, never a second
\* over it), at most one build is in progress at a time and it is for a
\* cluster without an entry, and while a cluster has not been invalidated every
\* caller holding a verifier for it holds the one cached entry.
C11_SingleBuild ==
    /\ [](\A w \in Workers :
            /\ pc[w] = "v_discovery" =>
                  /\ lv[w].cur \notin DOMAIN verifiers
                  /\ \A v \in Workers \ {w} : pc[v] # "v_discovery"
            /\ (pc[w] \in {"v_check", "v_jwks"} /\ NeverInvalidated(lv[w].cur)) =>
                  /\ lv[w].cur \in DOMAIN verifiers
                  /\ lv[w].ver = verifiers[lv[w].cur])
    /\ [][\A w \in Workers :
            (pc[w] = "v_discovery" /\ pc'[w] = "v_check") =>
                /\ lv[w].cur \notin DOMAIN verifiers
                /\ verifiers' = Put(verifiers, lv[w].cur, lv'[w].ver)]_vars

\* Two Verify calls for "b" found no entry under the read lock; one is
\* building, the other waits for the write lock.
C11_Witness ==
    \E w, v \in Workers :
        /\ pc[w] = "v_discovery" /\ pc[v] = "v_wlock"
        /\ lv[w].cur = "b" /\ lv[v].cur = "b"

\* C12, as stated: once the request's context is canceled, detectCluster
\* starts no further Verify call.
C12_AsStated ==
    [][\A w \in Reviews :
          (ctx[w] = "canceled" /\ pc'[w] = "v_rlock") => pc[w] = "v_rlock"]_vars

\* C13, as stated: the agent never terminates because registration failed.
C13_AsStated == agent.pc # "exited"

\* The delays the retries are to use, in seconds, by attempt.
ExpectedDelays == <<5, 10, 20, 40, 80, 160, 300, 300, 300, 300>>

\* C14: the delay after the i-th failed attempt (i = 0..9) is
\* min(baseDelay * 2^i, maxDelay): 5 s, doubling, capped at 300 s; in a cycle
\* the delays never decrease, and the shift stays within int64 nanoseconds.
C14_BackoffDelays ==
    /\ [](agent.pc = "sleep" =>
            /\ agent.i \in 0..9
            /\ agent.delay = ExpectedDelays[agent.i + 1]
            /\ agent.delay = (IF 5 * 2^agent.i < 300 THEN 5 * 2^agent.i ELSE 300)
            /\ agent.delay >= 5 /\ agent.delay <= 300
            /\ 2^agent.i <= MaxShift)
    /\ [][(agent.pc = "sleep" /\ agent'.pc = "sleep") => agent'.delay >= agent.delay]_vars
    /\ [][(agent.delay > 0 /\ agent'.delay > 0 /\ agent'.cycle = agent.cycle) =>
            /\ agent'.delay >= agent.delay
            /\ agent'.delay \in {agent.delay, 2 * agent.delay, 300}]_vars

\* The last attempt of a refresh cycle failed after the capped delay was used.
C14_Witness ==
    agent.pc = "sleep" /\ agent.i = 9 /\ agent.delay = 300 /\ agent.cycle = 1

\* C15: when forwarding to the detected cluster fails, the response has HTTP
\* status 200 and authenticated=false, and its error is "failed to validate
\* token: " followed by the failure's own text, which differs from the
\* detection-failure message.
C15_ForwardFailureResponse ==
    \A w \in Reviews :
        (pc[w] = "done" /\ lv[w].ferr # None) =>
            /\ lv[w].detected # None
            /\ resp[w].code = 200
            /\ resp[w].authenticated = FALSE
            /\ resp[w].error = "failed to validate token: " \o lv[w].ferr
            /\ resp[w].error # "token not valid for any configured cluster"
            /\ resp[w].apiVersion = "authentication.k8s.io/v1" /\ resp[w].kind = "TokenReview"

\* The remote TokenReview call of a request failed with an error status.
C15_Witness ==
    \E w \in Reviews :
        /\ pc[w] = "done" /\ lv[w].nfwd = 1
        /\ lv[w].ferr = "calling TokenReview API: Unauthorized"
        /\ resp[w].error = "failed to validate token: calling TokenReview API: Unauthorized"

C17_FailedPersistKeepsMemory ==
    /\ [][\A w \in Registers :
            (pc[w] = "reg_save" /\ pc'[w] = "done") =>
                /\ resp'[w] = RegisterError(500, "internal_error")
                /\ secret' = secret
                /\ credentials' = credentials
                /\ req[w].cluster \in DOMAIN credentials'
                /\ \/ credentials'[req[w].cluster] = lv[w].creds
                   \/ \E v \in Setters(req[w].cluster) \ {w} :
                         credentials'[req[w].cluster] = lv[v].creds]_vars
    /\ [](\A w \in Registers :
            (pc[w] = "done" /\ resp[w] = RegisterError(500, "internal_error")) =>
                /\ lv[w].creds # NoCreds
                /\ req[w].cluster \in DOMAIN credentials
                /\ \E v \in Setters(req[w].cluster) :
                      credentials[req[w].cluster] = lv[v].creds)

\* A registration for "b" failed to persist; the store holds its credentials,
\* which differ from the ones the Secret still holds.
C17_Witness ==
    \E w \in Registers :
        /\ pc[w] = "done" /\ resp[w] = RegisterError(500, "internal_error")
        /\ req[w].cluster = "b" /\ credentials["b"] = lv[w].creds
        /\ lv[w].creds.Token = "ag-b2"
        /\ secret.found /\ secret.data[<<"b", "token">>] = "boot-b"

\* The TokenReview responses written so far.
Written == {w \in Reviews : resp[w] # NoResponse}

Malformed(r) == r.kind = "review" /\ (~r.decodes \/ r.token = "")

FetchFailed(w) ==
    \/ pc[w] = "v_discovery" /\ pc'[w] # "v_check"
    \/ /\ pc[w] = "v_jwks" /\ SignatureOK(lv[w].ver, req[w].token)
       /\ pc'[w] # "forward"

\* C20, as stated: a discovery or key-set fetch failure during a TokenReview is
\* surfaced as a server-side failure and not as an authentication verdict: when
\* the handler answers in the step where the fetch fails, the response has a
\* server-error status.
C20_AsStated ==
    [][\A w \in Reviews :
          (FetchFailed(w) /\ pc'[w] = "done") => resp'[w].code >= 500]_vars

\* The step in which w's Store.Set assigns, and the steps in which w calls
\* Store.Get (for a forwarding call, for a verifier build).
SetStep(w) == pc[w] = "reg_store" /\ pc'[w] \in {"reg_snapshot", "reg_invalidate"}
GetForForward(w) ==
    pc[w] = "forward" /\ pc'[w] = "fwd_wait" /\ APIServer(lv[w].detected) # ""
GetForBuild(w) == pc[w] = "v_wlock" /\ pc'[w] = "v_discovery"

\* C21: a Set or InvalidateVerifier that has returned is seen by every Get or
\* Verify that begins afterwards.  The store's entry is the credentials of the
\* latest Set from the step of its assignment on, it changes in no other step,
\* and a Get reads that entry; InvalidateVerifier leaves no entry for its
\* cluster, and the entry a Verify goes on to use is the one the cache holds in
\* the step where the Verify reads or builds it, never one deleted before.
C21_CompletedWritesVisible ==
    /\ [][\A w \in Workers :
            /\ SetStep(w) =>
                  /\ req[w].cluster \in DOMAIN credentials'
                  /\ credentials'[req[w].cluster] = lv'[w].creds
            /\ ~(\E v \in Workers : SetStep(v)) => credentials' = credentials
            /\ GetForForward(w) =>
                  lv'[w].got = (IF lv[w].detected \in DOMAIN credentials
                                THEN credentials[lv[w].detected] ELSE NoCreds)
            /\ (GetForBuild(w) /\ lv[w].cur \in DOMAIN credentials) =>
                  /\ lv'[w].ver.ca = credentials[lv[w].cur].CACert
                  /\ credentials[lv[w].cur].Token # "" =>
                        lv'[w].ver.bearer = credentials[lv[w].cur].Token
            /\ (pc[w] = "reg_invalidate" /\ pc'[w] = "done") =>
                  req[w].cluster \notin DOMAIN verifiers'
            /\ (pc[w] \in {"v_rlock", "v_wlock", "v_discovery"} /\ pc'[w] = "v_check") =>
                  /\ lv[w].cur \in DOMAIN verifiers'
                  /\ lv'[w].ver = verifiers'[lv[w].cur]]_vars
    /\ [](\A w \in Registers :
            (pc[w] \in {"reg_invalidate", "done"} /\ lv[w].creds # NoCreds) =>
                /\ req[w].cluster \in DOMAIN credentials
                /\ \E v \in Setters(req[w].cluster) :
                      credentials[req[w].cluster] = lv[v].creds)

\* A registration for "b" was accepted, and a Verify for "b" that came after it
\* holds an entry built from the registered credentials.
C21_Witness ==
    \E w \in Registers, v \in Reviews :
        /\ req[w].cluster = "b" /\ pc[w] = "done" /\ resp[w] = RegisterAccepted
        /\ lv[w].creds = [Token |-> "ag-b2", CACert |-> "ca2"]
        /\ pc[v] = "v_check" /\ lv[v].cur = "b"
        /\ lv[v].ver.bearer = "ag-b2" /\ lv[v].ver.ca = "ca2"
        /\ secret.found /\ secret.data[<<"b", "token">>] = "ag-b2"

\* The tokens of the model.
AllTokens == ReviewTokens \cup {r.token : r \in RegisterRequests} \cup {"ag-b2"}

\* The verifier entries Verify(c, .) works with in the current state: the
\* cached entry, or else what getOrCreateVerifier builds from the credentials
\* and the discovery document.
RebuiltEntries(c) ==
    LET client == createHTTPClient(c)
    IN IF ~client.ok THEN {}
       ELSE {[cluster |-> c, bearer |-> client.bearer, ca |-> client.ca,
              jwks |-> IF APIServer(c) # ""
                       THEN rewriteJWKSURL(doc.jwks_uri, APIServer(c))
                       ELSE doc.jwks_uri] : doc \in DiscoveryDocs(c)}
EntriesFor(c) == IF c \in DOMAIN verifiers THEN {verifiers[c]} ELSE RebuiltEntries(c)

\* The key sets behind those entries and the tokens Verify(c, .) accepts.
KeyMaterial(c) == {KeysServedAt(e.jwks.host) : e \in EntriesFor(c)}
Accepts(c) ==
    {t \in AllTokens : /\ Jwt(t).ok /\ Jwt(t).iss = Issuer(c) /\ Jwt(t).live
                       /\ \E e \in EntriesFor(c) : SignatureOK(e, t)}

\* A step of registration v from Store.Set on, when another registration for
\* the same cluster with the same credentials has already been accepted.
RepeatStep(v) ==
    /\ pc[v] \in {"reg_store", "reg_snapshot", "reg_save", "reg_invalidate"}
    /\ Steps(v)
    /\ lv'[v].creds # NoCreds
    /\ \E w \in Registers \ {v} :
          /\ pc[w] = "done" /\ resp[w] = RegisterAccepted
          /\ req[w].cluster = req[v].cluster
          /\ lv[w].creds = lv'[v].creds

Partial(s) ==
    {k[1] : k \in DOMAIN s.data} \ DOMAIN loadFromSecret(s)
LoadErrorLogged == "Failed to load credentials from secret" \in boot.log
SecretRead == inCluster /\ ~boot.readFails

\* C23, as stated: NewStore never fails because of the persisted state: a
\* missing Secret gives an empty store without error, a Secret that cannot be
\* read gives a logged error and an empty store, and a persisted cluster with
\* only one of its two keys is treated as an error and not loaded.
C23_AsStated ==
    /\ boot.storeErr = None
    /\ boot.pc = "serving" =>
          /\ (SecretRead /\ ~secret.found) => (credentials = EmptyMap /\ ~LoadErrorLogged)
          /\ boot.readFails => (credentials = EmptyMap /\ LoadErrorLogged)
          /\ (SecretRead /\ Partial(secret) # {}) =>
                /\ \A c \in Partial(secret) : c \notin DOMAIN credentials
                /\ LoadErrorLogged

\* C23: NewStore never fails because of the persisted state: a missing Secret
\* gives an empty store without error, a Secret that cannot be read gives a
\* logged error and an empty store that still has its client, and a persisted
\* cluster with only one of its two keys is skipped without any error, logged
\* or returned, while the clusters with both keys are loaded.
C23_StoreAlwaysConstructed ==
    /\ [][boot.pc = "store" => boot'.pc = "serving"]_vars
    /\ [](/\ boot.storeErr = None
          /\ boot.pc = "fatal" => boot.err # None
          /\ boot.pc = "serving" =>
                /\ (SecretRead /\ ~secret.found) =>
                      (credentials = EmptyMap /\ ~LoadErrorLogged)
                /\ boot.readFails =>
                      (credentials = EmptyMap /\ LoadErrorLogged /\ inCluster)
                /\ SecretRead =>
                      /\ credentials = loadFromSecret(secret)
                      /\ \A c \in Partial(secret) : c \notin DOMAIN credentials
                      /\ ~LoadErrorLogged
                      /\ \A k \in DOMAIN secret.data :
                            k[1] \notin Partial(secret) =>
                                /\ k[1] \in DOMAIN credentials
                                /\ k[2] = "token" => credentials[k[1]].Token = secret.data[k]
                                /\ k[2] = "ca.crt" => credentials[k[1]].CACert = secret.data[k])

\* The service came up from a Secret that holds both keys of "b" and only the
\* token of "c": "b" was loaded, "c" was not, and nothing but the load of "b"
\* was logged.
C23_Witness ==
    /\ boot.pc = "serving" /\ SecretRead /\ secret.found
    /\ Partial(secret) = {"c"} /\ DOMAIN credentials = {"b"}
    /\ boot.log = {"Loaded credentials for cluster b"}

\* The answer the order of the registration handler's checks gives request w,
\* once it is answered; after the last check it is "accepted", or
\* internal_error when the store has a Secret to write to.
Checked(w) ==
    LET r == req[w] IN
    IF r.auth # "Bearer" THEN {RegisterError(401, "unauthorized")}
    ELSE IF ~r.decodes \/ r.cluster = "" THEN {RegisterError(400, "invalid_request")}
    ELSE IF r.cluster \notin clusters THEN {RegisterError(400, "cluster_not_found")}
    ELSE IF lv[w].claims = NoClaims \/ ~Jwt(r.token).ok
    THEN {RegisterError(401, "invalid_token")}
    ELSE IF ~(r.cluster \in DOMAIN Agents /\ Agents[r.cluster] = lv[w].claims.Subject)
    THEN {RegisterError(403, "unauthorized_agent")}
    ELSE IF lv[w].creds = NoCreds THEN {RegisterError(400, "invalid_request")}
    ELSE {RegisterAccepted} \cup
         (IF inCluster THEN {RegisterError(500, "internal_error")} ELSE {})

\* C24: a registration request gets exactly one answer, the one of the first
\* failing check in the order Authorization header, body and cluster name,
\* configured cluster, Verify, allow-list, CA encoding, Store.Set; and the
\* store is written only by a request that passed every check before Set.
C24_FirstFailingCheck ==
    /\ [](\A w \in Registers :
            /\ (pc[w] = "done") = (resp[w] # NoResponse)
            /\ pc[w] = "done" => resp[w] \in Checked(w)
            /\ lv[w].creds # NoCreds =>
                  /\ req[w].auth = "Bearer" /\ req[w].decodes
                  /\ req[w].cluster \in clusters
                  /\ lv[w].claims.Cluster = req[w].cluster
                  /\ req[w].cluster \in DOMAIN Agents
                  /\ Agents[req[w].cluster] = lv[w].claims.Subject
                  /\ credentials[req[w].cluster].CACert # None)
    /\ [][\A w \in Workers :
            /\ resp[w] # NoResponse => resp'[w] = resp[w]
            /\ (req[w].kind = "register" /\ pc[w] # "reg_store" /\ Steps(w)) =>
                  \A c \in DOMAIN credentials :
                      c \in DOMAIN credentials' /\ credentials'[c] = credentials[c]]_vars

\* A request with no Authorization header and an undecodable body was answered
\* unauthorized, and one with an unverifiable token for a cluster that is not
\* configured was answered cluster_not_found.
C24_Witness ==
    \E w, v \in Registers :
        /\ req[w].auth = "" /\ ~req[w].decodes
        /\ resp[w] = RegisterError(401, "unauthorized")
        /\ req[v].cluster = "zz" /\ req[v].token = InvalidToken
        /\ resp[v] = RegisterError(400, "cluster_not_found")

\* A configuration file Load must refuse.
BadFile(f) ==
    \/ ~f.exists \/ ~f.parses \/ DOMAIN f.clusters = {}
    \/ \E c \in DOMAIN f.clusters : f.clusters[c].Issuer = ""

\* C25: every Config that Load returns has at least one cluster and every
\* cluster in it has a non-empty issuer; for a missing file, unparsable YAML,
\* an empty cluster map or a cluster without issuer Load returns an error and
\* no Config, and main stops.
C25_LoadedConfigValid ==
    /\ \A f \in ConfigFiles : \A r \in Load(f) :
          /\ (r.err # None) = BadFile(f)
          /\ r.err # None => r.cfg = EmptyMap
          /\ r.err = None =>
                /\ r.cfg = f.clusters /\ DOMAIN r.cfg # {}
                /\ \A c \in DOMAIN r.cfg : r.cfg[c].Issuer # ""
    /\ boot.pc \in {"store", "serving"} =>
          /\ ~BadFile(boot.file) /\ boot.err = None
          /\ boot.cfg = boot.file.clusters /\ clusters = DOMAIN boot.cfg
          /\ clusters # {}
          /\ \A c \in clusters : boot.cfg[c].Issuer # ""
    /\ boot.pc = "fatal" =>
          /\ BadFile(boot.file) /\ boot.cfg = EmptyMap /\ clusters = {}
          /\ boot.err \in {"reading config file: no such file or directory",
                           "parsing config file: yaml: unmarshal error",
                           "no clusters configured"}
                \cup {"cluster " \o c \o ": issuer is required" :
                        c \in {n \in DOMAIN boot.file.clusters :
                                 boot.file.clusters[n].Issuer = ""}}
    /\ (boot.pc = "load" /\ ~BadFile(boot.file)) => Load(boot.file) # {}

\* Load refused a file in which "b" has an issuer and "c" has none.
C25_Witness ==
    /\ boot.pc = "fatal" /\ boot.file.parses
    /\ DOMAIN boot.file.clusters = {"b", "c"}
    /\ boot.file.clusters["b"].Issuer # ""
    /\ boot.err = "cluster c: issuer is required"

\* The entries of the last cluster listing.
Listed == {boot.listing[i] : i \in DOMAIN boot.listing}

\* C26: the cluster listing holds every configured cluster exactly once with
\* its issuer and API endpoint, a token status exactly for the clusters that
\* have credentials in the store, and that status follows from the stored
\* token's expiry alone, whatever key signed it; answering the listing changes
\* neither the store, the Secret nor the verifier cache.
C26_ClusterListing ==
    /\ [][boot'.listing # boot.listing =>
            /\ credentials' = credentials /\ secret' = secret
            /\ verifiers' = verifiers /\ clusters' = clusters]_vars
    /\ [](boot.listing # <<>> =>
            /\ Len(boot.listing) = Cardinality(clusters)
            /\ {info.Name : info \in Listed} = clusters
            /\ \A info \in Listed :
                  /\ info.Issuer = boot.cfg[info.Name].Issuer
                  /\ info.APIServer = boot.cfg[info.Name].APIServer
                  /\ (info.TokenStatus # None) = (info.Name \in DOMAIN credentials)
                  /\ info.Name \in DOMAIN credentials =>
                        LET j == Jwt(credentials[info.Name].Token)
                        IN /\ ~j.ok => info.TokenStatus = "unknown"
                           /\ (j.ok /\ ~j.live) => info.TokenStatus = "expired"
                           /\ (j.ok /\ j.live) =>
                                 info.TokenStatus \in {"valid", "expiring_soon"})

\* Three clusters are listed; "b" holds a live token that no cluster's key
\* signed and is reported valid, "local" has no credentials and no status.
C26_Witness ==
    /\ Len(boot.listing) = 3
    /\ \E info \in Listed : info.Name = "b" /\ info.TokenStatus = "valid"
    /\ \E info \in Listed : info.Name = "local" /\ info.TokenStatus = None
                            /\ info.APIServer = ""
    /\ credentials["b"].Token = "unk"

\* C27: when forwarding succeeds, the status of the response (authenticated,
\* user, audiences, error) is the status the detected cluster's TokenReview
\* call returned, an authoritative authenticated=false included; only
\* apiVersion and kind are set by the handler.
C27_RelayedUnmodified ==
    /\ [][\A w \in Reviews :
            (pc[w] = "fwd_wait" /\ pc'[w] = "done" /\ lv'[w].ferr = None) =>
                \E result \in UpstreamResults(req[w].token) :
                    /\ resp'[w].authenticated = result.authenticated
                    /\ resp'[w].user = result.user
                    /\ resp'[w].audiences = result.audiences
                    /\ resp'[w].error = result.error
                    /\ resp'[w].apiVersion = "authentication.k8s.io/v1"
                    /\ resp'[w].kind = "TokenReview"
                    /\ resp'[w].code = 200]_vars
    /\ [](\A w \in Reviews :
            (pc[w] = "done" /\ lv[w].nfwd = 1 /\ lv[w].ferr = None) =>
                \E result \in UpstreamResults(req[w].token) :
                    resp[w] = [result EXCEPT !.apiVersion = "authentication.k8s.io/v1",
                                             !.kind = "TokenReview"]
                                @@ [code |-> 200])

\* The detected cluster answered that the token is no longer valid, and the
\* response says so.
C27_Witness ==
    \E w \in Reviews :
        /\ pc[w] = "done" /\ lv[w].nfwd = 1 /\ lv[w].ferr = None
        /\ lv[w].detected = "b" /\ req[w].token = "wl-b"
        /\ ~resp[w].authenticated /\ resp[w].error = "token has been invalidated"

\* The step in which a Verify call of detection returns to detectCluster
\* without having verified the token.
VerifyFailedStep(w) ==
    /\ InDetection(w) /\ Steps(w)
    /\ pc'[w] \in {"v_rlock", "done"}

\* C28: during detection the clusters not yet tried and the one being tried
\* are together the configured clusters less those that failed; a Verify
\* failure of any kind moves on to one of the clusters not yet tried while
\* there is one, and detection fails only when none is left.
C28_DetectionTriesAll ==
    /\ [](\A w \in Reviews :
            InDetection(w) =>
                /\ lv[w].cur \in clusters /\ lv[w].cur \notin lv[w].remaining
                /\ lv[w].remaining \subseteq clusters
                /\ lv[w].detected = None)
    /\ [][\A w \in Reviews :
            /\ (pc[w] = "idle" /\ pc'[w] = "v_rlock") =>
                  lv'[w].remaining \cup {lv'[w].cur} = clusters
            /\ VerifyFailedStep(w) =>
                  IF lv[w].remaining # {}
                  THEN /\ pc'[w] = "v_rlock" /\ resp'[w] = NoResponse
                       /\ lv'[w].cur \in lv[w].remaining
                       /\ lv'[w].remaining = lv[w].remaining \ {lv'[w].cur}
                       /\ lv'[w].err # None
                  ELSE /\ pc'[w] = "done"
                       /\ resp'[w] = writeUnauthenticated(DetectionFailedMsg)]_vars

\* With "b" and "c" configured, the Verify for "b" failed on the CA certificate
\* an agent had registered, and detection went on to "c".
C28_Witness ==
    \E w \in Reviews :
        /\ clusters = {"b", "c"} /\ pc[w] = "v_rlock"
        /\ lv[w].cur = "c" /\ lv[w].remaining = {}
        /\ lv[w].err = "creating verifier: failed to parse CA cert"

\* The requests of the host-routed handler that reached Verify.
HostReviews == {w \in Workers : req[w].kind = "hostreview" /\ req[w].cluster # ""
                                /\ req[w].decodes /\ req[w].token # ""}

\* C29: Verify for a cluster name that is not in the configuration returns
\* "cluster not found" in its first step, whoever holds the VerifierManager's
\* lock; it sends no request and neither adds nor removes a verifier entry.
C29_UnknownClusterNoEffect ==
    /\ [][\A w \in HostReviews :
            (req[w].cluster \notin clusters /\ Steps(w)) =>
                /\ pc[w] = "v_rlock" /\ pc'[w] = "done"
                /\ resp'[w] = writeUnauthenticated("cluster not found: " \o req[w].cluster)
                /\ msg' = msg /\ verifiers' = verifiers /\ vmLock' = vmLock]_vars
    /\ [](\A w \in HostReviews :
            req[w].cluster \notin clusters =>
                /\ pc[w] \in {"v_rlock", "done"}
                /\ msg[w] = NoMessage /\ vmLock # w
                /\ req[w].cluster \notin DOMAIN verifiers
                /\ pc[w] = "done" => lv[w].claims = NoClaims)

\* Verify for "zz" returned "cluster not found" while another Verify held the
\* write lock for its discovery fetch.
C29_Witness ==
    \E w, v \in HostReviews :
        /\ req[w].cluster = "zz" /\ pc[w] = "done"
        /\ resp[w].error = "cluster not found: zz"
        /\ pc[v] = "v_discovery" /\ vmLock = v

\* The errors of go-oidc's audience check.
AudienceErrors ==
    {"verifying token: oidc: invalid configuration, clientID must be provided or SkipClientIDCheck must be set",
     "verifying token: oidc: expected audience"}

\* C30: Verify(C, token) succeeds only for a well-formed token whose iss is C's
\* configured issuer, whose signing key is in C's key set and which has not
\* expired; the Claims it returns name C and carry the token's subject and
\* audience; no Verify fails on the audience.
C30_VerifySucceedsOnlyIf ==
    \A w \in HostReviews :
        pc[w] = "done" /\ resp[w] # NoResponse =>
            IF resp[w].authenticated
            THEN LET c == req[w].cluster
                     j == Jwt(req[w].token)
                 IN /\ c \in clusters
                    /\ j.ok /\ j.live
                    /\ j.iss = K8sIssuer
                    /\ j.key \in JWKS(c)
                    /\ lv[w].claims.Cluster = c
                    /\ lv[w].claims.Issuer = j.iss
                    /\ resp[w].user = j.sub
                    /\ resp[w].audiences = Audience(req[w].token)
            ELSE resp[w].error \notin AudienceErrors

\* A token of cluster "b" asked for another audience was accepted for "b",
\* and one whose iss is b's API endpoint was refused for "b".
C30_Witness ==
    \E w, v \in HostReviews :
        /\ pc[w] = "done" /\ req[w].cluster = "b" /\ req[w].token = "aud-b"
        /\ resp[w].authenticated /\ lv[w].claims.Cluster = "b"
        /\ K8sIssuer \notin resp[w].audiences
        /\ pc[v] = "done" /\ req[v].cluster = "b" /\ req[v].token = "iss-b"
        /\ resp[v].error = "verifying token: oidc: id token issued by a different provider"

\* The REST config the code is to select for cluster c, from the configuration,
\* the process's identity and the store as it is when the config is built.
ExpectedTarget(c) ==
    IF APIServer(c) # ""
    THEN [Host |-> APIServer(c),
          BearerToken |-> IF c \in DOMAIN credentials THEN credentials[c].Token ELSE "",
          CAData |-> IF c \in DOMAIN credentials THEN credentials[c].CACert ELSE None]
    ELSE IF inCluster
    THEN [Host |-> InClusterHost, BearerToken |-> InClusterToken, CAData |-> InClusterCA]
    ELSE [Host |-> K8sIssuer, BearerToken |-> "", CAData |-> None]

\* C31: the forwarded TokenReview goes to the detected cluster's API endpoint
\* with the token and CA the store holds for it when the request is sent (none
\* when it holds none); for a cluster without an API endpoint it goes out under
\* the in-cluster identity, or else to the issuer URL with no credentials.  No
\* request leaves only when the CA selected that way is no certificate.
C31_ForwardingTarget ==
    [][\A w \in Reviews :
        pc[w] = "forward" /\ Steps(w) =>
            LET c == lv[w].detected
                t == ExpectedTarget(c)
            IN IF t.CAData # None /\ ~PEMOk(t.CAData)
               THEN pc'[w] = "done" /\ msg'[w] = NoMessage
               ELSE /\ pc'[w] = "fwd_wait"
                    /\ msg'[w] = Message("tokenreview", t.Host, t.BearerToken, t.CAData,
                                         req[w].token)]_vars

\* A review is forwarded to "b" with the credentials a registration stored
\* after start-up.
C31_Witness ==
    \E w \in Reviews :
        /\ pc[w] = "fwd_wait" /\ lv[w].detected = "b"
        /\ msg[w].to = APIServer("b") /\ msg[w].bearer = "ag-b2" /\ msg[w].ca = "ca2"

\* C32: for a cluster with an API endpoint, every key-set fetch goes to the
\* API endpoint's host, and every cached verifier entry holds a key-set URL on
\* that host, whatever the discovery document advertised.
C32_AsStated ==
    /\ \A w \in Workers :
          pc[w] = "v_jwks" /\ APIServer(lv[w].cur) # "" =>
              msg[w].to = APIServer(lv[w].cur)
    /\ \A c \in DOMAIN verifiers :
          APIServer(c) # "" => verifiers[c].jwks.host = APIServer(c)

\* C33: registerWithRetry makes at most maxRetries attempts; a successful
\* attempt returns to main at once, with no sleep and no further attempt; a
\* failed one sleeps and only the last failure is kept; after the last sleep
\* it returns the error of the last attempt; main calls it again only when
\* the ticker fires; and every call of it returns.
C33_RetryTerminates ==
    /\ [](agent.pc \in {"register", "sleep"} => agent.i < maxRetries)
    /\ [][agent.pc = "register" =>
            \/ agent'.pc = "ticker" /\ agent'.lastErr = None
            \/ /\ agent'.pc = "sleep" /\ agent'.i = agent.i
               /\ agent'.lastErr \in RegisterFailures]_vars
    /\ [][agent.pc = "sleep" =>
            \/ agent'.pc = "register" /\ agent'.i = agent.i + 1 /\ agent'.i < maxRetries
            \/ /\ agent'.pc \in {"ticker", "exited"}
               /\ agent.i = maxRetries - 1
               /\ agent'.lastErr = agent.lastErr /\ agent.lastErr \in RegisterFailures]_vars
    /\ [][agent.pc = "ticker" =>
            agent'.pc = "register" /\ agent'.i = 0 /\ agent'.cycle = agent.cycle + 1]_vars
    /\ [][agent.pc = "exited" => FALSE]_vars
    /\ (agent.pc = "register" ~> agent.pc \in {"ticker", "exited"})

\* A refresh cycle used up all its attempts and the agent waits for the ticker
\* with the error of the last one.
C33_Witness ==
    /\ agent.pc = "ticker" /\ agent.cycle = 1
    /\ agent.i = maxRetries /\ agent.lastErr \in RegisterFailures

\* The value a cluster's entry has in a map, NoCreds when it has none.
EntryOf(m, c) == IF c \in DOMAIN m THEN m[c] ELSE NoCreds

\* The Set that a step of the registration handler makes: its cluster and the
\* token and decoded CA of the request body.
SetBy(w, c) ==
    /\ pc[w] = "reg_store" /\ pc'[w] \in {"reg_snapshot", "reg_invalidate"}
    /\ req[w].cluster = c
    /\ \E body \in RegisterCredentials(req[w].token) :
          /\ ParseBase64CACert(body.ca_cert).ok
          /\ credentials'[c] = [Token |-> body.token,
                                CACert |-> ParseBase64CACert(body.ca_cert).val]

\* C34: no step removes a cluster from the in-memory credentials, whether it
\* is the load at start-up, LoadFromFiles, a Set, a failed persistence or a
\* rejected registration; an entry changes only as a whole, to the token and CA
\* of one Set's request, to the contents of the cluster's two bootstrap files,
\* or to the two keys the Secret holds for it at start-up.
C34_EntriesOnlyGrow ==
    [][/\ DOMAIN credentials \subseteq DOMAIN credentials'
       /\ \A c \in DOMAIN credentials' :
            credentials'[c] # EntryOf(credentials, c) =>
                \/ \E w \in Registers : SetBy(w, c)
                \/ /\ boot.pc = "serving" /\ boot'.storeErr = None /\ boot' # boot
                   /\ credentials'[c] = [Token |-> FileToken(c), CACert |-> FileCA(c)]
                \/ /\ boot.pc = "store" /\ secret.found
                   /\ credentials'[c] = [Token |-> secret.data[<<c, "token">>],
                                         CACert |-> secret.data[<<c, "ca.crt">>]]
       /\ \A w \in Registers :
            Steps(w) /\ pc'[w] = "done" /\ resp'[w] # RegisterAccepted =>
                credentials' = credentials]_vars

\* The store loaded "b" from the Secret, then from the bootstrap files, and a
\* Set whose persistence failed has replaced that entry as a whole.
C34_Witness ==
    /\ boot.log = {"Loaded bootstrap credentials for cluster b from files"}
    /\ secret.found /\ secret.data[<<"b", "token">>] = "boot-b"
    /\ \E w \in Registers :
          /\ pc[w] = "done" /\ resp[w] = RegisterError(500, "internal_error")
          /\ credentials["b"] = [Token |-> "ag-b2", CACert |-> "ca2"]

\* The credentials the store held when the service began to serve.
CredentialsAtStart == IF inCluster /\ ~boot.readFails THEN loadFromSecret(secret) ELSE EmptyMap

\* The requests answered so far are registrations, none of them accepted.
OnlyRefusals(errors) ==
    /\ \E w \in Workers : pc[w] = "done"
    /\ \A w \in Workers :
          /\ pc[w] \in {"idle", "done"}
          /\ pc[w] = "done" => req[w].kind = "register" /\ resp[w].error \in errors

\* C35, as stated: after registrations that were all answered with a
\* structured error, internal_error included, the in-memory credentials are
\* the ones the store held before them.  (No refused registration writes the
\* Secret, so the Secret still holds what the store was loaded from.)
C35_AsStated ==
    OnlyRefusals({"unauthorized", "invalid_request", "cluster_not_found", "invalid_token",
                  "unauthorized_agent", "internal_error"})
        => credentials = CredentialsAtStart

\* C35: a registration answered unauthorized, invalid_request,
\* cluster_not_found, invalid_token or unauthorized_agent has made no Set, and
\* only a Set changes the in-memory credentials: after such answers alone the
\* store holds what it held before.  A registration answered internal_error
\* has made its Set: the entry of its cluster holds the request's credentials,
\* or those of another Set made since, and no other entry was changed by it.
C35_RefusalsLeaveStore ==
    /\ [][credentials' # credentials =>
            \E w \in Registers :
                /\ pc[w] = "reg_store" /\ pc'[w] \in {"reg_snapshot", "reg_invalidate"}
                /\ lv'[w].creds # NoCreds /\ resp'[w] = NoResponse
                /\ \A c \in DOMAIN credentials' \ {req[w].cluster} :
                      c \in DOMAIN credentials /\ credentials'[c] = credentials[c]]_vars
    /\ [](\A w \in Registers :
            pc[w] = "done" =>
                IF resp[w].error \in {"unauthorized", "invalid_request", "cluster_not_found",
                                      "invalid_token", "unauthorized_agent"}
                THEN lv[w].creds = NoCreds
                ELSE /\ lv[w].creds # NoCreds
                     /\ resp[w] \in {RegisterAccepted, RegisterError(500, "internal_error")}
                     /\ req[w].cluster \in DOMAIN credentials
                     /\ \E v \in Setters(req[w].cluster) :
                           credentials[req[w].cluster] = lv[v].creds)
    /\ [](OnlyRefusals({"unauthorized", "invalid_request", "cluster_not_found",
                        "invalid_token", "unauthorized_agent"})
            => credentials = CredentialsAtStart)

\* One registration was refused as unauthorized_agent and one was answered
\* internal_error; the store holds the credentials of the latter, not the ones
\* it was loaded with.
C35_Witness ==
    \E w, v \in Registers :
        /\ pc[w] = "done" /\ resp[w] = RegisterError(403, "unauthorized_agent")
        /\ pc[v] = "done" /\ resp[v] = RegisterError(500, "internal_error")
        /\ credentials[req[v].cluster] = lv[v].creds
        /\ credentials # CredentialsAtStart

\* C36, as stated: while no registration request is in flight, every cached
\* verifier entry carries the bearer token and CA that createHTTPClient
\* selects from the credentials the store holds now.
C36_AsStated ==
    (\A w \in Registers : pc[w] = "done") =>
        \A c \in DOMAIN verifiers :
            /\ createHTTPClient(c).ok
            /\ verifiers[c].bearer = createHTTPClient(c).bearer
            /\ verifiers[c].ca = createHTTPClient(c).ca

\* The Secret's data hold exactly the token and CA of every entry of map m.
Holds(data, m) ==
    /\ DOMAIN data = {<<c, f>> : c \in DOMAIN m, f \in {"token", "ca.crt"}}
    /\ \A c \in DOMAIN m :
          data[<<c, "token">>] = m[c].Token /\ data[<<c, "ca.crt">>] = m[c].CACert

\* A Set is between its in-memory assignment and the end of its durable write.
SetInFlight(w) == pc[w] \in {"reg_snapshot", "reg_save"}

\* C37, as stated: in a service that persists, once no Set is in flight and
\* none has returned an error, the Secret holds exactly the token and CA of
\* every cluster of the in-memory map.
C37_AsStated ==
    (/\ inCluster
     /\ \A w \in Workers : ~SetInFlight(w) /\ resp[w] # RegisterError(500, "internal_error"))
        => Holds(secret.data, credentials)

\* C37: every durable write stores the copy of the whole in-memory map that
\* its Set took after its own assignment, so the Secret always holds, for each
\* cluster it names, a token and CA that were in memory together; a write whose
\* copy is still the current map leaves the Secret equal to the map, and so
\* does a single Set; Sets that overlap may leave the copy of the one that
\* wrote last, which can lack or predate what another Set assigned.
C37_SecretIsSnapshot ==
    /\ [][\A w \in Registers :
            pc[w] = "reg_snapshot" /\ Steps(w) =>
                /\ Holds(lv'[w].snapshot, credentials)
                /\ req[w].cluster \in DOMAIN credentials
                /\ credentials' = credentials /\ secret' = secret]_vars
    /\ [][secret' # secret =>
            \E w \in Registers :
                /\ pc[w] = "reg_save" /\ pc'[w] = "reg_invalidate"
                /\ secret' = [found |-> TRUE, data |-> lv[w].snapshot]
                /\ (Holds(lv[w].snapshot, credentials) => Holds(secret'.data, credentials'))]_vars
    /\ [](secret.found =>
            \A k \in DOMAIN secret.data :
                {<<k[1], "token">>, <<k[1], "ca.crt">>} \subseteq DOMAIN secret.data)
    /\ []((/\ inCluster
           /\ Cardinality({w \in Registers : lv[w].creds # NoCreds}) <= 1
           /\ \A w \in Workers : ~SetInFlight(w)
                                 /\ resp[w] # RegisterError(500, "internal_error"))
            => Holds(secret.data, credentials))

\* Two Sets, for "b" and for "c", have both returned without error, and the
\* Secret holds the copy of the first one, without the entry of "c".
C37_Witness ==
    /\ inCluster
    /\ \A w \in Workers : pc[w] = "done" /\ resp[w] = RegisterAccepted
    /\ {"b", "c"} \subseteq DOMAIN credentials
    /\ <<"c", "token">> \notin DOMAIN secret.data
    /\ secret.data[<<"b", "token">>] = credentials["b"].Token

\* A step in which a verifier build of goroutine w fails: createHTTPClient
\* cannot parse the CA, or the discovery fetch returns an error.
BuildFails(w) ==
    \/ /\ pc[w] = "v_wlock" /\ Steps(w)
       /\ lv[w].cur \notin DOMAIN verifiers
       /\ EntryOf(credentials, lv[w].cur).CACert = "junk"
    \/ pc[w] = "v_discovery" /\ Steps(w) /\ pc'[w] # "v_check"

\* C38: a failed verifier build changes no entry of the cache, leaves the
\* cluster without entry and the lock free, and ends that Verify with the
\* build's error; and a Verify that holds the write lock for a cluster without
\* entry always builds: it fails on the CA or sends the discovery request,
\* whatever happened to earlier builds.
C38_FailedBuildNotCached ==
    /\ [][\A w \in Workers :
            BuildFails(w) =>
                /\ verifiers' = verifiers
                /\ lv[w].cur \notin DOMAIN verifiers'
                /\ vmLock' = 0
                /\ pc'[w] \notin {"v_check", "v_jwks", "forward", "reg_store"}
                /\ lv'[w].claims = NoClaims]_vars
    /\ [][\A w \in Workers :
            (pc[w] = "v_wlock" /\ Steps(w) /\ lv[w].cur \notin DOMAIN verifiers) =>
                \/ BuildFails(w)
                \/ /\ pc'[w] = "v_discovery" /\ vmLock' = w
                   /\ msg'[w].kind = "discovery" /\ msg'[w].to = DiscoveryURL(lv[w].cur)]_vars

\* The discovery fetch of one detection failed for "b"; "b" has no entry and
\* the next Verify for "b" is building it again.
C38_Witness ==
    \E w \in Reviews, v \in Workers :
        /\ v # w
        /\ lv[w].err = "creating verifier: fetching OIDC discovery from " \o DiscoveryURL("b")
        /\ pc[v] = "v_discovery" /\ lv[v].cur = "b"
        /\ "b" \notin DOMAIN verifiers

\* C39, as stated: the bearer token a registration has stored is the token of
\* its Authorization header.
C39_AsStated ==
    \A w \in Registers : lv[w].creds # NoCreds => lv[w].creds.Token = req[w].token

\* C39: the handler stores the token and the decoded CA of the request body,
\* once the token of the Authorization header is verified for the cluster and
\* its subject authorized; it does not compare the two tokens.  For a request
\* built by the agent's register the body's token is the header's, so the
\* stored bearer token is the one that authenticated the request and the
\* stored CA is the agent's CA file.
C39_StoredIsBodyToken ==
    [][\A w \in Registers :
          (pc[w] = "reg_store" /\ pc'[w] \in {"reg_snapshot", "reg_invalidate"}) =>
              LET c == req[w].cluster
                  t == req[w].token
              IN /\ lv[w].claims.Cluster = c /\ Jwt(t).ok /\ Jwt(t).key \in JWKS(c)
                 /\ Jwt(t).sub = Agents[c]
                 /\ credentials'[c] = lv'[w].creds
                 /\ \E b \in {[token |-> t, ca_cert |-> B64Encode("ca1")],
                              [token |-> "ag-b2", ca_cert |-> B64Encode("ca2")],
                              [token |-> t, ca_cert |-> B64Encode("junk")]} :
                       lv'[w].creds = [Token |-> b.token, CACert |-> b.ca_cert[2]]
                 /\ \A ca \in {"ca1", "junk"} :
                       lv'[w].creds = [Token |-> register(t, ca).token,
                                       CACert |-> ParseBase64CACert(register(t, ca).ca_cert).val]
                           => credentials'[c] = [Token |-> t, CACert |-> ca]]_vars

\* The agent's registration for "b" was accepted: the store holds the token of
\* its Authorization header and its CA.
C39_Witness ==
    \E w \in Registers :
        /\ pc[w] = "done" /\ resp[w] = RegisterAccepted /\ req[w].cluster = "b"
        /\ req[w].token = "ag-b"
        /\ credentials["b"] = [Token |-> "ag-b", CACert |-> "ca1"]

====
